---- MODULE Spec2Model ----
(***************************************************************************)
(* Resource orchestrators of the provider (VPC IPv4 CIDR block             *)
(* association, transit gateway connect attachment, connect peer waits,    *)
(* SQS queue waits, Elasticsearch domain policy) and the convergence       *)
(* poller they wait with.                                                  *)
(*                                                                         *)
(* Time is counted in ticks of 30 seconds: 1 min = 2, 10 min = 20,         *)
(* 50 min = 100, 60 min = 120.  A duration shorter than a tick (the 10 s   *)
(* delay and the 5 s minimum interval of the VPC waits) counts as one      *)
(* tick.                                                                   *)
(*                                                                         *)
(* One behaviour manages one resource (kind, chosen in Init): the remote   *)
(* object lives in `remote`, the local identifier in `id`, and the         *)
(* operations of that resource run one at a time, each to completion.      *)
(***************************************************************************)
EXTENDS Integers, Sequences, FiniteSets, TLC

VARIABLES
    kind,      \* the resource this behaviour manages
    op,        \* the last operation invoked, "none" before the first
    pc,        \* the position inside the operation
    id,        \* d.Id(): the local resource identifier, "" when unset
    remote,    \* the remote object's lifecycle state
    pspec,     \* the PollSpec of the wait in progress
    poll,      \* the poller's own state
    obs,       \* what the refresh function returned so far (history of the wait)
    ret,       \* what the operation returned: "none" (running), "ok", "err"
    err,       \* the operation's err variable where the code reuses it
    mut,       \* mutating API calls issued by the operation in progress
    attrs,     \* the local attributes the read path sets
    gw,        \* the transit gateway: shared or owned, its default route table
    nops,      \* operations invoked so far
    aux,       \* per-operation inputs and locals
    fn         \* the call of a helper function run on its own: arguments, locals, result

vars ==
    <<kind, op, pc, id, remote, pspec, poll, obs, ret, err, mut, attrs, gw, nops, aux, fn>>

\* The variables of a resource's operations, which a helper function run on
\* its own leaves alone.
resource == <<kind, op, pc, id, remote, pspec, poll, obs, ret, err, mut, attrs, gw, nops, aux>>

\* No helper function is run on its own.
NoCall == [name |-> "none"]

Max(a, b) == IF a >= b THEN a ELSE b
Min(a, b) == IF a <= b THEN a ELSE b

\* ------------------------------------------------------------------ bounds

\* The largest continuousTargetOccurrences of a drawn PollSpec.
MaxOccurrences == 3
\* The largest timeout (ticks) of a drawn PollSpec.
MaxTimeout == 5
\* Operations invoked on the resource in one behaviour.
MaxOps == 2

\* ------------------------------------------------------- program constants

\* schema.DefaultTimeout(10 * time.Minute), create and delete
TimeoutCreate == 20
TimeoutDelete == 20
\* Delay: 10 * time.Second, MinTimeout: 5 * time.Second
VpcDelay == 1
VpcMinTimeout == 1
\* Timeout: 10 * time.Minute of the connect peer waits
PeerTimeout == 20
\* queueAttributePropagationTimeout = 1 * time.Minute
queueAttributePropagationTimeout == 2
\* resource.Retry(50*time.Minute, ...) and resource.Retry(60*time.Minute, ...)
UpsertRetryTimeout == 100
DeleteRetryTimeout == 120
\* The cap of the interval between two refresh calls, in ticks.
IntervalCap == 2

\* --------------------------------------------------- the convergence poller

NoSpec ==
    [pending |-> {}, target |-> {}, timeout |-> 0, pollInterval |-> 0,
     minPollInterval |-> 0, initialDelay |-> 0, occ |-> 1]

\* The PollSpec a call site builds (StateChangeConf: Pending, Target, Timeout,
\* PollInterval, MinTimeout, Delay, ContinuousTargetOccurence with default 1).
StateChangeConf(pending, target, timeout, minTimeout, delay, occ) ==
    [pending |-> pending, target |-> target, timeout |-> timeout,
     pollInterval |-> 0, minPollInterval |-> minTimeout,
     initialDelay |-> delay, occ |-> IF occ = 0 THEN 1 ELSE occ]

NoResult == [value |-> "nil", token |-> "", err |-> ""]

IdlePoll ==
    [status |-> "None", kind |-> "none", value |-> "nil", token |-> "",
     err |-> "", reads |-> 0, consec |-> 0, elapsed |-> 0, wait |-> 0,
     cancelled |-> FALSE]

\* The first interval: pollInterval, at least minPollInterval, at most the cap.
FirstInterval(s) ==
    Max(s.minPollInterval, Min(IntervalCap, Max(s.pollInterval, 1)))

\* Growth: a fixed pollInterval stays; otherwise the interval doubles up to the cap.
NextInterval(s, w) ==
    IF s.pollInterval > 0
    THEN FirstInterval(s)
    ELSE Max(s.minPollInterval, Min(IntervalCap, 2 * w))

\* A poll begins Pending, after initialDelay.
BeginPoll(s) ==
    [IdlePoll EXCEPT !.status = "Pending", !.elapsed = s.initialDelay,
                     !.wait = FirstInterval(s)]

\* A poller that still reads at the very moment the timeout has elapsed.
ExpiredLate(s, p) == p.elapsed > s.timeout

\* The timeout has elapsed since the poll began.
Expired(s, p) == p.elapsed >= s.timeout

\* A poller that does not look at the context of its caller.
CancelledNever(p) == FALSE

\* The context or deadline of the operation has fired.
Cancelled(p) == p.cancelled

\* Failure(Cancelled, lastStatusToken, nil)
PollCancelled(p) ==
    [p EXCEPT !.status = "Failed", !.kind = "Cancelled", !.err = "cancelled"]

\* A poller that does nothing when its deadline has passed.
PollTimeoutIgnored(p) == p

\* Failure(Timeout, lastStatusToken, nil)
PollTimeout(p) ==
    [p EXCEPT !.status = "Failed", !.kind = "Timeout", !.err = "timeout"]

\* The poller keeps polling: the next refresh comes one interval later.
KeepPolling(s, p) ==
    [p EXCEPT !.elapsed = @ + p.wait, !.wait = NextInterval(s, p.wait)]

\* A pending read that leaves the consecutive-success counter as it is.
PendingReadKeepsCounter(s, p, r) ==
    KeepPolling(s, [p EXCEPT !.reads = @ + 1, !.token = r.token, !.value = r.value])

\* A pending read resets the consecutive-success counter and polls on.
PendingRead(s, p, r) ==
    KeepPolling(s, [p EXCEPT !.reads = @ + 1, !.token = r.token,
                             !.value = r.value, !.consec = 0])

\* A target read counts; the poll succeeds at continuousTargetOccurrences.
TargetRead(s, p, r) ==
    LET q == [p EXCEPT !.reads = @ + 1, !.token = r.token, !.value = r.value,
                       !.consec = @ + 1]
    IN  IF q.consec >= s.occ
        THEN [q EXCEPT !.status = "Target", !.kind = "Success"]
        ELSE KeepPolling(s, q)

\* A refresh error is not retried: Failure(RefreshError, lastStatusToken, err).
RefreshErrorRead(s, p, r) ==
    [p EXCEPT !.reads = @ + 1, !.status = "Failed", !.kind = "RefreshError",
              !.err = r.err]

\* A state in neither set is not retried: Failure(UnexpectedState, token, nil).
UnexpectedRead(s, p, r) ==
    [p EXCEPT !.reads = @ + 1, !.token = r.token, !.value = r.value,
              !.status = "Failed", !.kind = "UnexpectedState",
              !.err = "unexpected state"]

\* One iteration of the poller on the refresh result r = (value, token, err).
PollIteration(s, p, r) ==
    IF r.err # "" THEN RefreshErrorRead(s, p, r)
    ELSE IF r.token \in s.target THEN TargetRead(s, p, r)
    ELSE IF r.token \in s.pending THEN PendingRead(s, p, r)
    ELSE UnexpectedRead(s, p, r)

\* ------------------------------------------------- the history of one wait

NoAnswer == [err |-> "", found |-> FALSE, state |-> ""]

NoObs == [last |-> NoResult, answer |-> NoAnswer, calls |-> 0, npending |-> 0,
          window |-> << >>]

Last(seq, n) ==
    IF Len(seq) <= n THEN seq ELSE SubSeq(seq, Len(seq) - n + 1, Len(seq))

\* The refresh calls of the wait so far: the last result and the API answer it
\* was made from, the number of calls, the number of pending-state reads, and
\* the last MaxOccurrences status tokens.
Observe(o, s, x) ==
    [last |-> x.res,
     answer |-> x.answer,
     calls |-> o.calls + 1,
     npending |-> o.npending +
                  (IF x.res.err = "" /\ x.res.token \in s.pending THEN 1 ELSE 0),
     window |-> Last(Append(o.window, IF x.res.err = "" THEN x.res.token ELSE "error"),
                     MaxOccurrences)]

\* ------------------------------------------- the remote API, as it answers

\* An answer of a describe call: an error code, or whether the object was in
\* the response and, if so, its state.
Answer(e, found, state) == [err |-> e, found |-> found, state |-> state]

ErrOther == "InternalError"

\* The lifecycle of the remote object, advanced by the provider side.
RemoteNext(k, r) ==
    CASE k = "peer" ->
            CASE r = "pending" -> {"available", "deleting"}
              [] r = "available" -> {"deleting"}
              [] r = "deleting" -> {"deleted"}
              [] r = "deleted" -> {"absent"}
              [] OTHER -> {}
      [] k = "tgw" ->
            CASE r = "pending" -> {"available", "failed"}
              [] r = "available" -> {"deleting"}
              [] r = "deleting" -> {"deleted"}
              [] r = "deleted" -> {"absent"}
              [] OTHER -> {}
      [] k = "es" ->
            CASE r = "processing" -> {"active", "nodomain"}
              [] r = "active" -> {"nodomain"}
              [] OTHER -> {}
      [] k = "sqs" ->
            CASE r = "stale" -> {"propagated"}
              [] OTHER -> {}
      [] k = "vpc" ->
            CASE r = "associating" -> {"associated", "failing", "novpc"}
              [] r = "associated" -> {"novpc"}
              [] r = "failing" -> {"failed", "novpc"}
              [] r = "failed" -> {"absent", "novpc"}
              [] r = "disassociating" -> {"disassociated", "novpc"}
              [] r = "disassociated" -> {"absent", "novpc"}
              [] r = "absent" -> {"novpc"}
              [] OTHER -> {}
      [] OTHER -> {}

\* DescribeTransitGatewayConnectPeer: (nil, err), (nil, nil) or (peer, nil).
DescribeTransitGatewayConnectPeer(r) ==
    IF r = "absent"
    THEN {Answer("InvalidTransitGatewayConnectPeerID.NotFound", FALSE, ""),
          Answer("", FALSE, ""), Answer(ErrOther, FALSE, "")}
    ELSE {Answer("", TRUE, r), Answer(ErrOther, FALSE, "")}

\* vpcDescribe: (nil, err), (nil, nil) or (vpc, nil); state is the state of the
\* association in vpc.CidrBlockAssociationSet, "" when it is not in the set.
vpcDescribe(r) ==
    CASE r = "novpc" -> {Answer("", FALSE, ""), Answer(ErrOther, FALSE, "")}
      [] r = "absent" -> {Answer("", TRUE, ""), Answer(ErrOther, FALSE, "")}
      [] OTHER -> {Answer("", TRUE, r), Answer(ErrOther, FALSE, "")}

\* ---------------------------------------------------- the refresh functions

\* A refresh function that answers a missing peer with a read error.
PeerRefreshNotFoundIsError(a) ==
    IF a.err # "" \/ ~a.found
    THEN [value |-> "nil", token |-> "", err |-> "error reading EC2 Transit Gateway Connect Peer"]
    ELSE [value |-> "peer", token |-> a.state, err |-> ""]

transitGatewayConnectPeerRefreshFunc(a) ==
    IF a.err = "InvalidTransitGatewayConnectPeerID.NotFound"
    THEN [value |-> "nil", token |-> "deleted", err |-> ""]
    ELSE IF a.err # ""
    THEN [value |-> "nil", token |-> "", err |-> "error reading EC2 Transit Gateway Connect Peer"]
    ELSE IF ~a.found
    THEN [value |-> "nil", token |-> "deleted", err |-> ""]
    ELSE [value |-> "peer", token |-> a.state, err |-> ""]

\* A refresh function that takes an association missing from the VPC for one
\* that is still associating.
VpcRefreshMissingIsAssociating(a) ==
    IF a.err # ""
    THEN [value |-> "nil", token |-> "", err |-> a.err]
    ELSE IF a.found /\ a.state # ""
    THEN [value |-> "cidrAssociation", token |-> a.state, err |-> ""]
    ELSE [value |-> "", token |-> "associating", err |-> ""]

vpcIpv4CidrBlockAssociationStateRefresh(a) ==
    IF a.err # ""
    THEN [value |-> "nil", token |-> "", err |-> a.err]
    ELSE IF a.found /\ a.state # ""
    THEN [value |-> "cidrAssociation", token |-> a.state, err |-> ""]
    ELSE [value |-> "", token |-> "deleted", err |-> ""]

\* DescribeTransitGatewayConnect / DescribeTransitGatewayAttachment by ID.
DescribeTransitGatewayConnect(r) ==
    IF r = "absent"
    THEN {Answer("InvalidTransitGatewayAttachmentID.NotFound", FALSE, ""),
          Answer("", FALSE, ""), Answer(ErrOther, FALSE, "")}
    ELSE {Answer("", TRUE, r), Answer(ErrOther, FALSE, "")}

\* The refresh function of the attachment waits.
transitGatewayAttachmentRefreshFunc(a) ==
    IF a.err = "InvalidTransitGatewayAttachmentID.NotFound"
    THEN [value |-> "nil", token |-> "deleted", err |-> ""]
    ELSE IF a.err # ""
    THEN [value |-> "nil", token |-> "", err |-> "error reading EC2 Transit Gateway Attachment"]
    ELSE IF ~a.found
    THEN [value |-> "nil", token |-> "deleted", err |-> ""]
    ELSE [value |-> "attachment", token |-> a.state, err |-> ""]

\* conn.DescribeElasticsearchDomain(input); state "processing" is
\* DomainStatus.Processing = true.
DescribeElasticsearchDomain(r) ==
    IF r = "nodomain"
    THEN {Answer("ResourceNotFoundException", FALSE, ""), Answer(ErrOther, FALSE, "")}
    ELSE {Answer("", TRUE, r), Answer(ErrOther, FALSE, "")}

\* FindQueueAttributesByURL(conn, url): the attributes read, or an error.
FindQueueAttributesByURL(r) ==
    {Answer("", TRUE, r), Answer(ErrOther, FALSE, "")}

\* attributesMatch(got): nil ("") when the attributes read are the expected ones.
attributesMatch(got) ==
    IF got = "propagated" THEN "" ELSE "SQS Queue attribute mismatch"

\* A retried function that takes a read error for a retryable one.
DomainRetryFuncRetriesReadError(a) ==
    IF a.err = "" /\ a.state # "processing"
    THEN [value |-> "done", token |-> "success", err |-> ""]
    ELSE [value |-> "retry", token |-> "retryableerror", err |-> ""]

\* The function resource.Retry polls in resourceDomainPolicyUpsert and
\* resourceDomainPolicyDelete: NonRetryableError(err) on a read error, nil
\* when the domain is no longer processing, RetryableError otherwise.
domainProcessedRetryFunc(a) ==
    IF a.err # ""
    THEN [value |-> "nil", token |-> "quit", err |-> a.err]
    ELSE IF a.state # "processing"
    THEN [value |-> "done", token |-> "success", err |-> ""]
    ELSE [value |-> "retry", token |-> "retryableerror", err |-> ""]

\* The function resource.Retry polls in waitQueueAttributesPropagated.
queueAttributesRetryFunc(a) ==
    IF a.err # ""
    THEN [value |-> "nil", token |-> "quit", err |-> a.err]
    ELSE IF attributesMatch(a.state) = ""
    THEN [value |-> "done", token |-> "success", err |-> ""]
    ELSE [value |-> "retry", token |-> "retryableerror", err |-> ""]

\* ------------------------------------------------------------ PollSpecs

\* PollSpecs drawn for the poller on its own: every timeout, interval, delay
\* and continuousTargetOccurrences within the bounds.
DrawnSpecs ==
    {[pending |-> {"pending"}, target |-> {"target"}, timeout |-> t,
      pollInterval |-> pi, minPollInterval |-> mi, initialDelay |-> d, occ |-> n] :
        t \in 1..MaxTimeout, pi \in 0..1, mi \in {0, 2}, d \in 0..1,
        n \in 1..MaxOccurrences}

\* What a drawn refresh function may return on any call.
DrawnResults ==
    {[value |-> "obj", token |-> t, err |-> ""] : t \in {"pending", "target", "other"}}
        \cup {[value |-> "nil", token |-> "", err |-> "refresh failed"]}

\* A create wait whose target is the state it should wait through.
PeerCreationConfSwapped ==
    StateChangeConf({"available"}, {"pending"}, PeerTimeout, 0, 0, 0)

\* A create wait that takes the state it should wait through for its target.
PeerCreationConfPendingTarget ==
    StateChangeConf({}, {"pending", "available"}, PeerTimeout, 0, 0, 0)

\* stateConf of waitForTransitGatewayConnectPeerCreation
PeerCreationConf ==
    StateChangeConf({"pending"}, {"available"}, PeerTimeout, 0, 0, 0)

\* stateConf of WaitForTransitGatewayConnectPeerDeletion
PeerDeletionConf ==
    StateChangeConf({"available", "deleting"}, {"deleted"}, PeerTimeout, 0, 0, 0)

\* resource.Retry(timeout, f): f is polled while it returns a retryable error.
Retry(timeout) ==
    StateChangeConf({"retryableerror"}, {"success"}, timeout, 1, 0, 0)

\* A create wait that keeps polling through a failing association.
VpcCreateConfFailingPending ==
    StateChangeConf({"associating", "failing", "failed"}, {"associated"},
                    TimeoutCreate, VpcMinTimeout, VpcDelay, 0)

\* A create wait whose MinTimeout is longer than the poller's longest interval.
VpcCreateConfLongMinTimeout ==
    StateChangeConf({"associating"}, {"associated"}, TimeoutCreate,
                    IntervalCap + VpcMinTimeout, VpcDelay, 0)

\* stateConf of resourceVPCIPv4CIDRBlockAssociationCreate
VpcCreateConf ==
    StateChangeConf({"associating"}, {"associated"}, TimeoutCreate,
                    VpcMinTimeout, VpcDelay, 0)

\* A delete wait that keeps polling while the association is still associated.
VpcDeleteConfAssociatedPending ==
    StateChangeConf({"disassociating", "associated"}, {"disassociated", "deleted"},
                    TimeoutDelete, VpcMinTimeout, VpcDelay, 0)

\* stateConf of resourceVPCIPv4CIDRBlockAssociationDelete
VpcDeleteConf ==
    StateChangeConf({"disassociating"}, {"disassociated", "deleted"},
                    TimeoutDelete, VpcMinTimeout, VpcDelay, 0)

\* ------------------------------------------------------------ operations

Idle == pc = "done"

\* An operation is invoked.
NoAux ==
    [start |-> "", changed |-> {}, call |-> "", seen |-> "", recheck |-> "", keys |-> {},
     describes |-> 0]

\* The describe calls resourceTransitGatewayConnectRead has made when its
\* calls came to `seen`: DescribeTransitGatewayConnect, DescribeTransitGateway,
\* DescribeTransitGatewayAttachment and, on a gateway that is not shared,
\* DescribeTransitGatewayRouteTableAssociation and
\* FindTransitGatewayRouteTablePropagation; the read returns at the first
\* call that decides.
TgwDescribes(seen, shared) ==
    CASE seen = "errGateway" -> 2
      [] seen \in {"errAttachment", "nilAttachment"} -> 3
      [] seen = "errAssociation" -> 4
      [] seen = "errPropagation" -> 5
      [] seen = "ok" -> IF shared THEN 3 ELSE 5
      [] OTHER -> 1

\* The describe calls of an operation; only those of
\* resourceTransitGatewayConnectRead are counted.
DescribesOf(name, seen, shared) ==
    IF name = "resourceTransitGatewayConnectRead" THEN TgwDescribes(seen, shared) ELSE 0

\* The stored values from which the read and the delete of the VPC CIDR block
\* association build their requests and the refresh function of their wait.
VpcRequestKeys(name) ==
    CASE name = "resourceVPCIPv4CIDRBlockAssociationRead" -> {"id"}
      [] name = "resourceVPCIPv4CIDRBlockAssociationDelete" -> {"id", "vpc_id"}
      [] OTHER -> {}

\* A table in which every read and delete is keyed by d.Id() alone.
RequestKeysByIdOnly(name) ==
    IF name \in {"resourceVPCIPv4CIDRBlockAssociationRead",
                 "resourceVPCIPv4CIDRBlockAssociationDelete",
                 "resourceTransitGatewayConnectRead",
                 "resourceTransitGatewayConnectDelete",
                 "resourceDomainPolicyRead",
                 "resourceDomainPolicyDelete"}
    THEN {"id"}
    ELSE {}

\* The same for the reads and deletes of the transit gateway connect and of
\* the domain policy: d.Id() for the first, d.Get("domain_name") for the second.
RequestKeys(name) ==
    CASE name \in {"resourceTransitGatewayConnectRead",
                   "resourceTransitGatewayConnectDelete"} -> {"id"}
      [] name \in {"resourceDomainPolicyRead",
                   "resourceDomainPolicyDelete"} -> {"domain_name"}
      [] OTHER -> VpcRequestKeys(name)

BeginAt(name, r, changed, call, seen) ==
    /\ Idle
    /\ nops < MaxOps
    /\ nops' = nops + 1
    /\ op' = name
    /\ err' = ""
    /\ aux' = [start |-> r, changed |-> changed, call |-> call, seen |-> seen,
               recheck |-> "", keys |-> RequestKeys(name),
               describes |-> DescribesOf(name, seen, gw.shared)]

BeginWith(name, changed, call, seen) == BeginAt(name, remote, changed, call, seen)

Begin(name) == BeginWith(name, {}, "", "")

\* An operation is invoked and its mutating API call answers a.
BeginCall(name, a) == BeginWith(name, {}, a, "")

\* A read is invoked and its describe calls come to `seen`.
BeginRead(name, seen) == BeginWith(name, {}, "", seen)

\* What a describe call showed of the remote object: the error code, "missing"
\* when the object is not in the answer, else the object's state.
Seen(a) ==
    IF a.err # "" THEN a.err
    ELSE IF ~a.found \/ a.state = "" THEN "missing"
    ELSE a.state

\* The operation returns result ("ok" for nil, "err" for an error).
Return(result) ==
    /\ pc' = "done"
    /\ ret' = result

\* stateConf.WaitForState() starts on PollSpec s.
StartWait(s) ==
    /\ pspec' = s
    /\ poll' = BeginPoll(s)
    /\ obs' = NoObs
    /\ pc' = "wait"
    /\ ret' = "none"

\* The error stateConf.WaitForState() returns: "" (nil) on Success, else the
\* kind of the failure.
WaitError(p) == IF p.kind = "Success" THEN "" ELSE p.kind

\* stateConf.WaitForState() has returned: the caller keeps its error, the
\* PollSpec and the poller's state are discarded.
WaitReturned ==
    /\ pc = "wait"
    /\ poll.status \in {"Target", "Failed"}
    /\ err' = WaitError(poll)
    /\ pspec' = NoSpec
    /\ poll' = IdlePoll
    /\ obs' = NoObs

\* The operation returns without having waited: no PollSpec was built.
NoWait ==
    /\ pspec' = NoSpec
    /\ poll' = IdlePoll
    /\ obs' = NoObs

\* What the refresh function of the wait in progress can return now: the
\* answer of its API call and what the function makes of it.
Refreshed ==
    CASE kind = "poll" ->
            {[answer |-> Answer(r.err, TRUE, r.token), res |-> r] : r \in DrawnResults}
      [] kind = "peer" ->
            {[answer |-> a, res |-> transitGatewayConnectPeerRefreshFunc(a)] :
                a \in DescribeTransitGatewayConnectPeer(remote)}
      [] kind = "vpc" ->
            {[answer |-> a, res |-> vpcIpv4CidrBlockAssociationStateRefresh(a)] :
                a \in vpcDescribe(remote)}
      [] kind = "tgw" ->
            {[answer |-> a, res |-> transitGatewayAttachmentRefreshFunc(a)] :
                a \in DescribeTransitGatewayConnect(remote)}
      [] kind = "es" ->
            {[answer |-> a, res |-> domainProcessedRetryFunc(a)] :
                a \in DescribeElasticsearchDomain(remote)}
      [] kind = "sqs" ->
            {[answer |-> a, res |-> queueAttributesRetryFunc(a)] :
                a \in FindQueueAttributesByURL(remote)}
      [] OTHER -> {}

\* One iteration of stateConf.WaitForState(): the timeout check, then one
\* call of the refresh function and its classification.
\* A refresh function that makes a call that changes the remote object.
RefreshFuncMutates(k) == 1

\* The calls of a refresh function that change the remote object: each refresh
\* function makes one describe or get call (DescribeTransitGatewayConnectPeers,
\* DescribeVpcs, DescribeElasticsearchDomain, GetQueueAttributes) and no other.
MutatingCallsOfRefresh(k) == 0

WaitForState ==
    /\ pc = "wait"
    /\ poll.status = "Pending"
    /\ IF Cancelled(poll)
       THEN /\ poll' = PollCancelled(poll)
            /\ obs' = obs
       ELSE IF Expired(pspec, poll)
       THEN /\ poll' = PollTimeout(poll)
            /\ obs' = obs
       ELSE \E x \in Refreshed :
            /\ poll' = PollIteration(pspec, poll, x.res)
            /\ obs' = Observe(obs, pspec, x)
    /\ mut' = mut + (IF obs'.calls > obs.calls THEN MutatingCallsOfRefresh(kind) ELSE 0)
    /\ UNCHANGED <<fn, kind, nops, gw, op, pc, id, remote, pspec, ret, err, attrs, aux>>

\* The provider side advances the remote object.
RemoteProgress ==
    /\ \E r \in RemoteNext(kind, remote) : remote' = r
    /\ UNCHANGED <<fn, kind, nops, gw, op, pc, id, pspec, poll, obs, ret, err, mut, attrs, aux>>

\* ---- the poller on its own

PollStart ==
    /\ kind = "poll"
    /\ Begin("WaitForState")
    /\ \E s \in DrawnSpecs : StartWait(s)
    /\ mut' = 0
    /\ UNCHANGED <<fn, kind, gw, id, remote, attrs>>

\* The context of the operation fires while the poller is between two
\* iterations. The waits of the resources are started with WaitForState() and
\* resource.Retry, which take no context, so only a poll started on its own
\* can be cancelled.
Cancel ==
    /\ kind = "poll"
    /\ pc = "wait"
    /\ poll.status = "Pending"
    /\ ~poll.cancelled
    /\ poll' = [poll EXCEPT !.cancelled = TRUE]
    /\ UNCHANGED <<fn, kind, nops, gw, op, pc, id, remote, pspec, obs, ret, err, mut, attrs, aux>>

PollReturn ==
    /\ kind = "poll"
    /\ WaitReturned
    /\ Return(IF poll.kind = "Success" THEN "ok" ELSE "err")
    /\ UNCHANGED <<fn, kind, nops, gw, op, id, remote, mut, attrs, aux>>

\* ---- connect peer waits

\* tfresource.NotFound(err): err is the poller's not-found failure.
NotFound(p) == p.kind = "NotFound"

waitForTransitGatewayConnectPeerCreation ==
    /\ kind = "peer"
    /\ Begin("waitForTransitGatewayConnectPeerCreation")
    /\ StartWait(PeerCreationConf)
    /\ mut' = 0
    /\ UNCHANGED <<fn, kind, gw, id, remote, attrs>>

WaitForTransitGatewayConnectPeerDeletion ==
    /\ kind = "peer"
    /\ Begin("WaitForTransitGatewayConnectPeerDeletion")
    /\ StartWait(PeerDeletionConf)
    /\ mut' = 0
    /\ UNCHANGED <<fn, kind, gw, id, remote, attrs>>

\* _, err := stateConf.WaitForState(); return err
PeerCreationReturn ==
    /\ op = "waitForTransitGatewayConnectPeerCreation"
    /\ WaitReturned
    /\ Return(IF poll.kind = "Success" THEN "ok" ELSE "err")
    /\ UNCHANGED <<fn, kind, nops, gw, op, id, remote, mut, attrs, aux>>

\* A deletion wait that takes a timeout for success.
PeerDeletionReturnsNilOnTimeout ==
    /\ op = "WaitForTransitGatewayConnectPeerDeletion"
    /\ WaitReturned
    /\ Return(IF poll.kind \in {"Success", "Timeout"} \/ NotFound(poll)
              THEN "ok" ELSE "err")
    /\ UNCHANGED <<fn, kind, nops, gw, op, id, remote, mut, attrs, aux>>

\* _, err := stateConf.WaitForState(); if tfresource.NotFound(err) { return nil }
\* return err
PeerDeletionReturn ==
    /\ op = "WaitForTransitGatewayConnectPeerDeletion"
    /\ WaitReturned
    /\ Return(IF poll.kind = "Success" \/ NotFound(poll) THEN "ok" ELSE "err")
    /\ UNCHANGED <<fn, kind, nops, gw, op, id, remote, mut, attrs, aux>>

\* ---- VPC IPv4 CIDR block association

\* conn.AssociateVpcCidrBlock(req): the association ID, or an error.
AssociateVpcCidrBlock(r) ==
    IF r = "absent" THEN {"ok", ErrOther} ELSE {"InvalidVpcID.NotFound", ErrOther}

\* conn.DisassociateVpcCidrBlock(AssociationId: d.Id()): nil, or an error.
DisassociateVpcCidrBlock(r) ==
    CASE r = "novpc" -> {"InvalidVpcID.NotFound", ErrOther}
      [] r = "absent" -> {"InvalidVpcCidrBlockAssociationID.NotFound", ErrOther}
      [] OTHER -> {"ok", ErrOther}

\* conn.DescribeVpcs filtered by cidr-block-association.association-id.
DescribeVpcs(r) ==
    CASE r = "novpc" -> {Answer("", FALSE, ""), Answer(ErrOther, FALSE, "")}
      [] r = "absent" ->
            {Answer("", FALSE, ""), Answer("", TRUE, ""), Answer(ErrOther, FALSE, "")}
      [] OTHER -> {Answer("", TRUE, r), Answer(ErrOther, FALSE, "")}

\* A create that sets the identifier before it looks at the call's error.
VpcCreateSetsIdFirst ==
    /\ kind = "vpc"
    /\ id = ""
    /\ remote \in {"absent", "novpc"}
    /\ mut' = 1
    /\ id' = "vpc-cidr-assoc-1"
    /\ \E a \in AssociateVpcCidrBlock(remote) :
        /\ BeginCall("resourceVPCIPv4CIDRBlockAssociationCreate", a)
        /\ IF a # "ok"
           THEN /\ Return("err")
                /\ NoWait
                /\ UNCHANGED remote
           ELSE /\ remote' = "associating"
                /\ StartWait(VpcCreateConf)
    /\ UNCHANGED <<fn, kind, gw, attrs>>

\* resourceVPCIPv4CIDRBlockAssociationCreate up to stateConf.WaitForState():
\* the associate call, d.SetId, the PollSpec.
resourceVPCIPv4CIDRBlockAssociationCreate ==
    /\ kind = "vpc"
    /\ id = ""
    /\ remote \in {"absent", "novpc"}
    /\ mut' = 1
    /\ \E a \in AssociateVpcCidrBlock(remote) :
        /\ BeginCall("resourceVPCIPv4CIDRBlockAssociationCreate", a)
        /\ IF a # "ok"
           THEN /\ Return("err")
                /\ NoWait
                /\ UNCHANGED <<id, remote>>
           ELSE /\ remote' = "associating"
                /\ id' = "vpc-cidr-assoc-1"
                /\ StartWait(VpcCreateConf)
    /\ UNCHANGED <<fn, kind, gw, attrs>>

\* A create that unsets the identifier when its wait fails.
VpcCreateWaitedClearsId ==
    /\ op = "resourceVPCIPv4CIDRBlockAssociationCreate"
    /\ WaitReturned
    /\ IF poll.kind # "Success"
       THEN Return("err") /\ id' = ""
       ELSE pc' = "read" /\ ret' = ret /\ id' = id
    /\ UNCHANGED <<fn, kind, nops, gw, op, remote, mut, attrs, aux>>

\* if err != nil { return fmt.Errorf("Error waiting ...") }; then the read.
VpcCreateWaited ==
    /\ op = "resourceVPCIPv4CIDRBlockAssociationCreate"
    /\ WaitReturned
    /\ IF poll.kind # "Success"
       THEN Return("err")
       ELSE pc' = "read" /\ ret' = ret
    /\ UNCHANGED <<fn, kind, nops, gw, op, id, remote, mut, attrs, aux>>

\* The body of resourceVPCIPv4CIDRBlockAssociationRead on the answer a.
VpcReadBody(a) ==
    IF a.err # ""
    THEN /\ Return("err")
         /\ UNCHANGED <<id, attrs>>
    ELSE IF ~a.found \/ a.state = ""
    THEN /\ id' = ""
         /\ Return("ok")
         /\ UNCHANGED attrs
    ELSE /\ attrs' = "remote"
         /\ Return("ok")
         /\ UNCHANGED id

\* return resourceVPCIPv4CIDRBlockAssociationRead(d, meta), at the end of create
VpcCreateRead ==
    /\ op = "resourceVPCIPv4CIDRBlockAssociationCreate"
    /\ pc = "read"
    /\ \E a \in DescribeVpcs(remote) :
        /\ aux' = [aux EXCEPT !.seen = Seen(a)]
        /\ VpcReadBody(a)
    /\ UNCHANGED <<fn, kind, nops, gw, op, remote, pspec, poll, obs, err, mut>>

resourceVPCIPv4CIDRBlockAssociationRead ==
    /\ kind = "vpc"
    /\ id # ""
    /\ mut' = 0
    /\ \E a \in DescribeVpcs(remote) :
        /\ BeginRead("resourceVPCIPv4CIDRBlockAssociationRead", Seen(a))
        /\ VpcReadBody(a)
    /\ NoWait
    /\ UNCHANGED <<fn, kind, gw, remote>>

\* What the API shows of the association once DisassociateVpcCidrBlock has
\* answered without error: disassociating, or for a while still associated.
Disassociated(r) ==
    {"disassociating"} \cup (IF r = "associated" THEN {"associated"} ELSE {})

\* resourceVPCIPv4CIDRBlockAssociationDelete up to stateConf.WaitForState()
resourceVPCIPv4CIDRBlockAssociationDelete ==
    /\ kind = "vpc"
    /\ id # ""
    /\ mut' = 1
    /\ \E a \in DisassociateVpcCidrBlock(remote) :
        /\ BeginCall("resourceVPCIPv4CIDRBlockAssociationDelete", a)
        /\ IF a = "InvalidVpcID.NotFound"
           THEN /\ Return("ok")
                /\ NoWait
                /\ UNCHANGED remote
           ELSE IF a # "ok"
           THEN /\ Return("err")
                /\ NoWait
                /\ UNCHANGED remote
           ELSE /\ remote' \in Disassociated(remote)
                /\ StartWait(VpcDeleteConf)
    /\ UNCHANGED <<fn, kind, gw, id, attrs>>

\* A delete that sends a failed poll back to polling.
VpcDeleteWaitedPollsOn ==
    /\ op = "resourceVPCIPv4CIDRBlockAssociationDelete"
    /\ pc = "wait"
    /\ poll.status \in {"Target", "Failed"}
    /\ IF poll.kind = "Success"
       THEN /\ Return("ok")
            /\ err' = WaitError(poll)
            /\ NoWait
       ELSE /\ poll' = [poll EXCEPT !.status = "Pending"]
            /\ UNCHANGED <<pc, ret, err, pspec, obs>>
    /\ UNCHANGED <<fn, kind, nops, gw, op, id, remote, mut, attrs, aux>>

\* if err != nil { return fmt.Errorf("Error waiting ...") }; return nil
VpcDeleteWaited ==
    /\ op = "resourceVPCIPv4CIDRBlockAssociationDelete"
    /\ WaitReturned
    /\ Return(IF poll.kind = "Success" THEN "ok" ELSE "err")
    /\ UNCHANGED <<fn, kind, nops, gw, op, id, remote, mut, attrs, aux>>

\* ---- transit gateway connect attachment

\* Timeout of the transit gateway attachment waits (10 min).
AttachmentTimeout == 20

\* stateConf of waitForTransitGatewayAttachmentCreation
AttachmentCreationConf ==
    StateChangeConf({"pending"}, {"available"}, AttachmentTimeout, 0, 0, 0)

\* stateConf of WaitForTransitGatewayAttachmentDeletion
AttachmentDeletionConf ==
    StateChangeConf({"available", "deleting"}, {"deleted"}, AttachmentTimeout, 0, 0, 0)

\* conn.CreateTransitGatewayConnect(input)
CreateTransitGatewayConnect(r) == {"ok", ErrOther}

\* conn.DeleteTransitGatewayConnect(input)
DeleteTransitGatewayConnect(r) ==
    IF r = "absent"
    THEN {"InvalidTransitGatewayAttachmentID.NotFound", ErrOther}
    ELSE {"ok", ErrOther}

\* What the describe calls before the route table updates can come to.
GatewayLookups == {"ok", "errAttachment", "errGateway", "missingOptions"}

\* transitGatewayRouteTableAssociationUpdate / ...PropagationUpdate: the
\* attachment's tie to the default route table is brought to `desired`; the
\* modifying call is issued only when it differs.
RouteTableUpdates(current, desired) ==
    IF current = desired THEN {"ok", "errDescribe"} ELSE {"ok", "errDescribe", "errModify"}

RouteTableCalls(current, desired, o) ==
    IF current # desired /\ o \in {"ok", "errModify"} THEN 1 ELSE 0

\* resourceTransitGatewayConnectCreate up to waitForTransitGatewayAttachmentCreation
resourceTransitGatewayConnectCreate ==
    /\ kind = "tgw"
    /\ id = ""
    /\ remote = "absent"
    /\ mut' = 1
    /\ \E a \in CreateTransitGatewayConnect(remote) :
        /\ BeginCall("resourceTransitGatewayConnectCreate", a)
        /\ IF a # "ok"
           THEN /\ Return("err")
                /\ NoWait
                /\ UNCHANGED <<id, remote>>
           ELSE /\ remote' = "pending"
                /\ id' = "tgw-attach-1"
                /\ StartWait(AttachmentCreationConf)
    /\ UNCHANGED <<fn, kind, gw, attrs>>

\* A create that deletes the attachment again when its wait has failed.
TgwCreateWaitedRollsBack ==
    /\ op = "resourceTransitGatewayConnectCreate"
    /\ WaitReturned
    /\ IF poll.kind # "Success"
       THEN Return("err") /\ mut' = mut + 1 /\ remote' = "deleting"
       ELSE pc' = "describe" /\ ret' = ret /\ UNCHANGED <<mut, remote>>
    /\ UNCHANGED <<fn, kind, nops, gw, op, id, attrs, aux>>

\* if err := waitForTransitGatewayAttachmentCreation(...); err != nil { return ... }
TgwCreateWaited ==
    /\ op = "resourceTransitGatewayConnectCreate"
    /\ WaitReturned
    /\ IF poll.kind # "Success"
       THEN Return("err")
       ELSE pc' = "describe" /\ ret' = ret
    /\ UNCHANGED <<fn, kind, nops, gw, op, id, remote, mut, attrs, aux>>

\* DescribeTransitGatewayAttachment, DescribeTransitGateway, the Options check
\* and the owner comparison.
TgwCreateDescribe ==
    /\ op = "resourceTransitGatewayConnectCreate"
    /\ pc = "describe"
    /\ \E o \in GatewayLookups :
        IF o # "ok"
        THEN Return("err")
        ELSE /\ pc' = IF ~gw.shared THEN "associate" ELSE "read"
             /\ ret' = ret
    /\ UNCHANGED <<fn, kind, nops, gw, op, id, remote, pspec, poll, obs, err, mut, attrs, aux>>

\* A create that goes on to the propagation update when the association
\* update has failed.
TgwCreateAssociateIgnoresError ==
    /\ op = "resourceTransitGatewayConnectCreate"
    /\ pc = "associate"
    /\ \E o \in RouteTableUpdates(gw.assoc, attrs.assoc) :
        /\ mut' = mut + RouteTableCalls(gw.assoc, attrs.assoc, o)
        /\ gw' = IF o = "ok" THEN [gw EXCEPT !.assoc = attrs.assoc] ELSE gw
        /\ pc' = "propagate"
        /\ ret' = ret
    /\ UNCHANGED <<fn, kind, nops, op, id, remote, pspec, poll, obs, err, attrs, aux>>

\* transitGatewayRouteTableAssociationUpdate, in create
TgwCreateAssociate ==
    /\ op = "resourceTransitGatewayConnectCreate"
    /\ pc = "associate"
    /\ \E o \in RouteTableUpdates(gw.assoc, attrs.assoc) :
        /\ mut' = mut + RouteTableCalls(gw.assoc, attrs.assoc, o)
        /\ IF o # "ok"
           THEN Return("err") /\ gw' = gw
           ELSE /\ gw' = [gw EXCEPT !.assoc = attrs.assoc]
                /\ pc' = "propagate"
                /\ ret' = ret
    /\ UNCHANGED <<fn, kind, nops, op, id, remote, pspec, poll, obs, err, attrs, aux>>

TgwCreatePropagate ==
    /\ op = "resourceTransitGatewayConnectCreate"
    /\ pc = "propagate"
    /\ \E o \in RouteTableUpdates(gw.prop, attrs.prop) :
        /\ mut' = mut + RouteTableCalls(gw.prop, attrs.prop, o)
        /\ IF o # "ok"
           THEN Return("err") /\ gw' = gw
           ELSE /\ gw' = [gw EXCEPT !.prop = attrs.prop]
                /\ pc' = "read"
                /\ ret' = ret
    /\ UNCHANGED <<fn, kind, nops, op, id, remote, pspec, poll, obs, err, attrs, aux>>

\* A read that takes the flag from the lookup alone.
DefaultRouteTableFlagFromLookup(shared, found) == found

\* The value the read sets for transit_gateway_default_route_table_association
\* (resp. propagation): the result starts non-nil and, on a gateway that is
\* not shared, is replaced by the lookup's result, non-nil when the attachment
\* is associated with (resp. propagates to) the default route table; the flag
\* is (result != nil).
DefaultRouteTableFlag(shared, found) ==
    IF ~shared THEN found ELSE TRUE

\* What the describe calls of the read after the connect attachment can come to.
ReadLookups(shared) ==
    {"ok", "errGateway", "errAttachment", "nilAttachment"}
        \cup (IF shared THEN {} ELSE {"errAssociation", "errPropagation"})

\* A read that writes the route table flags before it looks at the state of
\* the attachment.
TgwReadBodyWritesFirst(a, o) ==
    IF a.err = "InvalidTransitGatewayAttachmentID.NotFound"
    THEN id' = "" /\ Return("ok") /\ UNCHANGED attrs
    ELSE IF a.err # ""
    THEN Return("err") /\ UNCHANGED <<id, attrs>>
    ELSE IF ~a.found
    THEN id' = "" /\ Return("ok") /\ UNCHANGED attrs
    ELSE IF a.state \in {"deleting", "deleted"}
    THEN /\ id' = ""
         /\ Return("ok")
         /\ attrs' = [assoc |-> DefaultRouteTableFlag(gw.shared, gw.assoc),
                      prop |-> DefaultRouteTableFlag(gw.shared, gw.prop),
                      src |-> "remote"]
    ELSE IF o = "nilAttachment"
    THEN id' = "" /\ Return("ok") /\ UNCHANGED attrs
    ELSE IF o # "ok"
    THEN Return("err") /\ UNCHANGED <<id, attrs>>
    ELSE /\ attrs' = [assoc |-> DefaultRouteTableFlag(gw.shared, gw.assoc),
                      prop |-> DefaultRouteTableFlag(gw.shared, gw.prop),
                      src |-> "remote"]
         /\ Return("ok")
         /\ UNCHANGED id

\* A read that takes an attachment in state deleting or deleted for a live one.
TgwReadBodyKeepsDeleted(a, o) ==
    IF a.err = "InvalidTransitGatewayAttachmentID.NotFound"
    THEN id' = "" /\ Return("ok") /\ UNCHANGED attrs
    ELSE IF a.err # ""
    THEN Return("err") /\ UNCHANGED <<id, attrs>>
    ELSE IF ~a.found
    THEN id' = "" /\ Return("ok") /\ UNCHANGED attrs
    ELSE IF o = "nilAttachment"
    THEN id' = "" /\ Return("ok") /\ UNCHANGED attrs
    ELSE IF o # "ok"
    THEN Return("err") /\ UNCHANGED <<id, attrs>>
    ELSE /\ attrs' = [assoc |-> DefaultRouteTableFlag(gw.shared, gw.assoc),
                      prop |-> DefaultRouteTableFlag(gw.shared, gw.prop),
                      src |-> "remote"]
         /\ Return("ok")
         /\ UNCHANGED id

\* The body of resourceTransitGatewayConnectRead on the answer a of
\* DescribeTransitGatewayConnect and the outcome o of the later lookups.
TgwReadBody(a, o) ==
    IF a.err = "InvalidTransitGatewayAttachmentID.NotFound"
    THEN id' = "" /\ Return("ok") /\ UNCHANGED attrs
    ELSE IF a.err # ""
    THEN Return("err") /\ UNCHANGED <<id, attrs>>
    ELSE IF ~a.found \/ a.state \in {"deleting", "deleted"}
    THEN id' = "" /\ Return("ok") /\ UNCHANGED attrs
    ELSE IF o = "nilAttachment"
    THEN id' = "" /\ Return("ok") /\ UNCHANGED attrs
    ELSE IF o # "ok"
    THEN Return("err") /\ UNCHANGED <<id, attrs>>
    ELSE /\ attrs' = [assoc |-> DefaultRouteTableFlag(gw.shared, gw.assoc),
                      prop |-> DefaultRouteTableFlag(gw.shared, gw.prop),
                      src |-> "remote"]
         /\ Return("ok")
         /\ UNCHANGED id

\* What the describe calls of resourceTransitGatewayConnectRead came to: the
\* answer on the connect attachment where it decides, else the later lookups.
TgwSeen(a, o) ==
    IF a.err # "" \/ ~a.found \/ a.state \in {"deleting", "deleted"}
    THEN Seen(a)
    ELSE o

\* return resourceTransitGatewayConnectRead(d, meta), at the end of create
TgwCreateRead ==
    /\ op = "resourceTransitGatewayConnectCreate"
    /\ pc = "read"
    /\ \E a \in DescribeTransitGatewayConnect(remote), o \in ReadLookups(gw.shared) :
        /\ aux' = [aux EXCEPT !.seen = TgwSeen(a, o),
                              !.describes = TgwDescribes(TgwSeen(a, o), gw.shared)]
        /\ TgwReadBody(a, o)
    /\ UNCHANGED <<fn, kind, nops, gw, op, remote, pspec, poll, obs, err, mut>>

resourceTransitGatewayConnectRead ==
    /\ kind = "tgw"
    /\ id # ""
    /\ mut' = 0
    /\ \E a \in DescribeTransitGatewayConnect(remote), o \in ReadLookups(gw.shared) :
        /\ BeginRead("resourceTransitGatewayConnectRead", TgwSeen(a, o))
        /\ TgwReadBody(a, o)
    /\ NoWait
    /\ UNCHANGED <<fn, kind, gw, remote>>

\* The attributes as planned: a changed flag has its new value.
Planned(a, changed) ==
    [a EXCEPT !.assoc = IF "association" \in changed THEN ~@ ELSE @,
              !.prop = IF "propagation" \in changed THEN ~@ ELSE @]

\* An update that writes the tags whether or not they changed.
UpdateNextAlwaysTags(changed, done) ==
    IF done # "tags" THEN "tags" ELSE "done"

\* An update that brings both route table ties up to date when either changed.
UpdateNextBothRouteTables(changed, done) ==
    IF done = "start" /\ changed \cap {"association", "propagation"} # {} THEN "gateway"
    ELSE IF done = "gateway" THEN "associate"
    ELSE IF done = "associate" THEN "propagate"
    ELSE IF done # "tags" /\ "tags_all" \in changed THEN "tags"
    ELSE "done"

\* Where resourceTransitGatewayConnectUpdate goes after the step `done`.
UpdateNext(changed, done) ==
    IF done = "start" /\ changed \cap {"association", "propagation"} # {} THEN "gateway"
    ELSE IF done \in {"gateway"} /\ "association" \in changed THEN "associate"
    ELSE IF done \in {"gateway", "associate"} /\ "propagation" \in changed THEN "propagate"
    ELSE IF done # "tags" /\ "tags_all" \in changed THEN "tags"
    ELSE "done"

\* The update goes on to its next step, or returns nil after the last.
UpdateGoto(changed, done) ==
    /\ pc' = UpdateNext(changed, done)
    /\ ret' = IF UpdateNext(changed, done) = "done" THEN "ok" ELSE "none"

\* resourceTransitGatewayConnectUpdate: d.HasChanges(...) on what changed.
resourceTransitGatewayConnectUpdate ==
    /\ kind = "tgw"
    /\ id # ""
    /\ \E changed \in SUBSET {"association", "propagation", "tags_all"} :
        /\ BeginWith("resourceTransitGatewayConnectUpdate", changed, "", "")
        /\ attrs' = Planned(attrs, changed)
        /\ UpdateGoto(changed, "start")
    /\ mut' = 0
    /\ NoWait
    /\ UNCHANGED <<fn, kind, gw, id, remote>>

\* DescribeTransitGateway and the Options check of the update
TgwUpdateGateway ==
    /\ op = "resourceTransitGatewayConnectUpdate"
    /\ pc = "gateway"
    /\ \E o \in {"ok", "errGateway", "missingOptions"} :
        IF o # "ok" THEN Return("err") ELSE UpdateGoto(aux.changed, "gateway")
    /\ UNCHANGED <<fn, kind, nops, gw, op, id, remote, pspec, poll, obs, err, mut, attrs, aux>>

TgwUpdateAssociate ==
    /\ op = "resourceTransitGatewayConnectUpdate"
    /\ pc = "associate"
    /\ \E o \in RouteTableUpdates(gw.assoc, attrs.assoc) :
        /\ mut' = mut + RouteTableCalls(gw.assoc, attrs.assoc, o)
        /\ IF o # "ok"
           THEN Return("err") /\ gw' = gw
           ELSE /\ gw' = [gw EXCEPT !.assoc = attrs.assoc]
                /\ UpdateGoto(aux.changed, "associate")
    /\ UNCHANGED <<fn, kind, nops, op, id, remote, pspec, poll, obs, err, attrs, aux>>

TgwUpdatePropagate ==
    /\ op = "resourceTransitGatewayConnectUpdate"
    /\ pc = "propagate"
    /\ \E o \in RouteTableUpdates(gw.prop, attrs.prop) :
        /\ mut' = mut + RouteTableCalls(gw.prop, attrs.prop, o)
        /\ IF o # "ok"
           THEN Return("err") /\ gw' = gw
           ELSE /\ gw' = [gw EXCEPT !.prop = attrs.prop]
                /\ UpdateGoto(aux.changed, "propagate")
    /\ UNCHANGED <<fn, kind, nops, op, id, remote, pspec, poll, obs, err, attrs, aux>>

\* UpdateTags(conn, d.Id(), o, n)
TgwUpdateTags ==
    /\ op = "resourceTransitGatewayConnectUpdate"
    /\ pc = "tags"
    /\ mut' = mut + 1
    /\ \E o \in {"ok", "err"} : Return(o)
    /\ UNCHANGED <<fn, kind, nops, gw, op, id, remote, pspec, poll, obs, err, attrs, aux>>

\* resourceTransitGatewayConnectDelete up to WaitForTransitGatewayAttachmentDeletion
resourceTransitGatewayConnectDelete ==
    /\ kind = "tgw"
    /\ id # ""
    /\ mut' = 1
    /\ \E a \in DeleteTransitGatewayConnect(remote) :
        /\ BeginCall("resourceTransitGatewayConnectDelete", a)
        /\ IF a = "InvalidTransitGatewayAttachmentID.NotFound"
           THEN /\ Return("ok")
                /\ NoWait
                /\ UNCHANGED remote
           ELSE IF a # "ok"
           THEN /\ Return("err")
                /\ NoWait
                /\ UNCHANGED remote
           ELSE /\ remote' = IF remote \in {"deleting", "deleted"} THEN remote ELSE "deleting"
                /\ StartWait(AttachmentDeletionConf)
    /\ UNCHANGED <<fn, kind, gw, id, attrs>>

\* if err := WaitForTransitGatewayAttachmentDeletion(...); err != nil { return ... }
TgwDeleteWaited ==
    /\ op = "resourceTransitGatewayConnectDelete"
    /\ WaitReturned
    /\ Return(IF poll.kind = "Success" \/ NotFound(poll) THEN "ok" ELSE "err")
    /\ UNCHANGED <<fn, kind, nops, gw, op, id, remote, mut, attrs, aux>>

\* ---- SQS queue attribute propagation

\* tfresource.TimedOut(err): err is the timeout of the wait.
TimedOut(e) == e = "Timeout"

\* waitQueueAttributesPropagated up to resource.Retry
waitQueueAttributesPropagated ==
    /\ kind = "sqs"
    /\ Begin("waitQueueAttributesPropagated")
    /\ StartWait(Retry(queueAttributePropagationTimeout))
    /\ mut' = 0
    /\ UNCHANGED <<fn, kind, gw, id, remote, attrs>>

\* resource.Retry has returned err.
QueueAttributesRetried ==
    /\ op = "waitQueueAttributesPropagated"
    /\ WaitReturned
    /\ IF TimedOut(WaitError(poll))
       THEN pc' = "recheck" /\ ret' = ret
       ELSE Return(IF WaitError(poll) = "" THEN "ok" ELSE "err")
    /\ UNCHANGED <<fn, kind, nops, gw, op, id, remote, mut, attrs, aux>>

\* A wait that reads once more after the timeout and still returns the timeout.
QueueAttributesRecheckKeepsTimeout ==
    /\ op = "waitQueueAttributesPropagated"
    /\ pc = "recheck"
    /\ \E a \in FindQueueAttributesByURL(remote) :
        /\ err' = err
        /\ aux' = [aux EXCEPT !.recheck = IF a.err # "" THEN "error" ELSE a.state]
        /\ Return("err")
    /\ UNCHANGED <<fn, kind, nops, gw, op, id, remote, pspec, poll, obs, mut, attrs>>

\* if tfresource.TimedOut(err) { got, err = FindQueueAttributesByURL(...); ... }
QueueAttributesRecheck ==
    /\ op = "waitQueueAttributesPropagated"
    /\ pc = "recheck"
    /\ \E a \in FindQueueAttributesByURL(remote) :
        /\ err' = IF a.err # "" THEN a.err ELSE attributesMatch(a.state)
        /\ aux' = [aux EXCEPT !.recheck = IF a.err # "" THEN "error" ELSE a.state]
        /\ Return(IF err' = "" THEN "ok" ELSE "err")
    /\ UNCHANGED <<fn, kind, nops, gw, op, id, remote, pspec, poll, obs, mut, attrs>>

\* ---- Elasticsearch domain policy

\* conn.UpdateElasticsearchDomainConfig(input)
UpdateElasticsearchDomainConfig(r) ==
    IF r = "nodomain" THEN {"ResourceNotFoundException", ErrOther} ELSE {"ok", ErrOther}

\* verify.PolicyToSet on the policies read: converted, or an error.
PolicyToSet == {"ok", "errPolicy"}

\* What the calls of resourceDomainPolicyRead came to.
DomainSeen(a, p) == IF a.err # "" THEN a.err ELSE IF p # "ok" THEN p ELSE a.state

\* The body of resourceDomainPolicyRead on the answer a and the outcome p of
\* verify.PolicyToSet.
DomainPolicyReadBody(a, p) ==
    IF a.err = "ResourceNotFoundException"
    THEN id' = "" /\ Return("ok") /\ UNCHANGED attrs
    ELSE IF a.err # "" \/ p # "ok"
    THEN Return("err") /\ UNCHANGED <<id, attrs>>
    ELSE attrs' = [attrs EXCEPT !.src = "remote"] /\ Return("ok") /\ UNCHANGED id

resourceDomainPolicyRead ==
    /\ kind = "es"
    /\ id # ""
    /\ mut' = 0
    /\ \E a \in DescribeElasticsearchDomain(remote), p \in PolicyToSet :
        /\ BeginRead("resourceDomainPolicyRead", DomainSeen(a, p))
        /\ DomainPolicyReadBody(a, p)
    /\ NoWait
    /\ UNCHANGED <<fn, kind, gw, remote>>

\* The values of the attribute domain_name: required, and not ForceNew, so
\* the update, which is the upsert too, may find it changed.
DomainNames == {"a", "b"}

\* "esd-policy-" + domainName
PolicyId(domainName) == "esd-policy-" \o domainName

\* The state of the domain named n: `remote` follows the domain that the
\* stored domain_name names; another domain is in any state.
DomainStates == {"active", "processing", "nodomain"}

DomainNamed(n) == IF n = attrs.domain_name THEN {remote} ELSE DomainStates

\* resourceDomainPolicyUpsert up to resource.Retry: the update call on the
\* domain d.Get("domain_name"), then d.SetId.
resourceDomainPolicyUpsert ==
    /\ kind = "es"
    /\ mut' = 1
    /\ \E domainName \in DomainNames :
        \E r \in DomainNamed(domainName) :
            \E a \in UpdateElasticsearchDomainConfig(r) :
                /\ BeginAt("resourceDomainPolicyUpsert", r, {}, a, "")
                /\ attrs' = [attrs EXCEPT !.domain_name = domainName]
                /\ IF a # "ok"
                   THEN /\ Return("err")
                        /\ NoWait
                        /\ remote' = r
                        /\ UNCHANGED id
                   ELSE /\ remote' = "processing"
                        /\ id' = PolicyId(domainName)
                        /\ StartWait(Retry(UpsertRetryTimeout))
    /\ UNCHANGED <<fn, kind, gw>>

\* resource.Retry has returned err: on a timeout the domain is read once more.
DomainPolicyUpsertRetried ==
    /\ op = "resourceDomainPolicyUpsert"
    /\ WaitReturned
    /\ IF TimedOut(WaitError(poll))
       THEN pc' = "recheck" /\ ret' = ret
       ELSE IF WaitError(poll) # ""
       THEN Return("err")
       ELSE pc' = "read" /\ ret' = ret
    /\ UNCHANGED <<fn, kind, nops, gw, op, id, remote, mut, attrs, aux>>

\* out, err = conn.DescribeElasticsearchDomain(input): err is overwritten;
\* if err == nil && !Processing { return nil }; if err != nil { return ... };
\* return resourceDomainPolicyRead(d, meta)
DomainPolicyUpsertRecheck ==
    /\ op = "resourceDomainPolicyUpsert"
    /\ pc = "recheck"
    /\ \E a \in DescribeElasticsearchDomain(remote) :
        /\ err' = a.err
        /\ aux' = [aux EXCEPT !.recheck = IF a.err # "" THEN "error" ELSE a.state]
        /\ IF a.err = "" /\ a.state # "processing"
           THEN Return("ok")
           ELSE IF a.err # ""
           THEN Return("err")
           ELSE pc' = "read" /\ ret' = ret
    /\ UNCHANGED <<fn, kind, nops, gw, op, id, remote, pspec, poll, obs, mut, attrs>>

\* return resourceDomainPolicyRead(d, meta), at the end of the upsert
DomainPolicyUpsertRead ==
    /\ op = "resourceDomainPolicyUpsert"
    /\ pc = "read"
    /\ \E a \in DescribeElasticsearchDomain(remote), p \in PolicyToSet :
        /\ aux' = [aux EXCEPT !.seen = DomainSeen(a, p)]
        /\ DomainPolicyReadBody(a, p)
    /\ UNCHANGED <<fn, kind, nops, gw, op, remote, pspec, poll, obs, err, mut>>

\* resourceDomainPolicyDelete up to resource.Retry: the update call.
resourceDomainPolicyDelete ==
    /\ kind = "es"
    /\ id # ""
    /\ mut' = 1
    /\ \E a \in UpdateElasticsearchDomainConfig(remote) :
        /\ BeginCall("resourceDomainPolicyDelete", a)
        /\ IF a # "ok"
           THEN /\ Return("err")
                /\ NoWait
                /\ UNCHANGED remote
           ELSE /\ remote' = "processing"
                /\ StartWait(Retry(DeleteRetryTimeout))
    /\ UNCHANGED <<fn, kind, gw, id, attrs>>

\* resource.Retry has returned err: on a timeout the domain is read once more.
DomainPolicyDeleteRetried ==
    /\ op = "resourceDomainPolicyDelete"
    /\ WaitReturned
    /\ IF TimedOut(WaitError(poll))
       THEN pc' = "recheck" /\ ret' = ret
       ELSE Return(IF WaitError(poll) = "" THEN "ok" ELSE "err")
    /\ UNCHANGED <<fn, kind, nops, gw, op, id, remote, mut, attrs, aux>>

\* out, err := conn.DescribeElasticsearchDomain(input): a new err, the outer
\* one keeps the timeout; if err == nil && !Processing { return nil };
\* if err != nil { return ... }
DomainPolicyDeleteRecheck ==
    /\ op = "resourceDomainPolicyDelete"
    /\ pc = "recheck"
    /\ \E a \in DescribeElasticsearchDomain(remote) :
        /\ aux' = [aux EXCEPT !.recheck = IF a.err # "" THEN "error" ELSE a.state]
        /\ IF a.err = "" /\ a.state # "processing"
           THEN Return("ok")
           ELSE Return(IF err # "" THEN "err" ELSE "ok")
    /\ UNCHANGED <<fn, kind, nops, gw, op, id, remote, pspec, poll, obs, err, mut, attrs>>

\* ------------------------------------------------------------ the system

Kinds == {"poll", "peer", "vpc", "tgw", "sqs", "es"}

InitRemote(k) ==
    CASE k = "peer" -> {"absent", "pending", "available"}
      [] k = "vpc" -> {"absent", "associated"}
      [] k = "tgw" -> {"absent", "available"}
      [] k = "sqs" -> {"stale", "propagated"}
      [] k = "es" -> DomainStates
      [] OTHER -> {"none"}

InitId(k, r) ==
    CASE k = "vpc" -> IF r = "absent" THEN {"", "vpc-cidr-assoc-1"} ELSE {"vpc-cidr-assoc-1"}
      [] k = "tgw" -> IF r = "absent" THEN {"", "tgw-attach-1"} ELSE {"tgw-attach-1"}
      [] k = "es" -> {"", "esd-policy-a"}
      [] OTHER -> {""}

\* The configured attributes: both route table flags default to true.
InitAttrs(k) ==
    CASE k = "tgw" -> {[assoc |-> a, prop |-> TRUE, src |-> "config"] : a \in BOOLEAN}
      [] k = "es" -> {[domain_name |-> "a", src |-> "config"]}
      [] OTHER -> {"config"}

InitGateway(k) ==
    IF k = "tgw"
    THEN {[shared |-> s, assoc |-> a, prop |-> b] : s \in BOOLEAN, a \in BOOLEAN, b \in BOOLEAN}
    ELSE {[shared |-> FALSE, assoc |-> FALSE, prop |-> FALSE]}

Init ==
    /\ kind \in Kinds
    /\ remote \in InitRemote(kind)
    /\ id \in InitId(kind, remote)
    /\ op = "none"
    /\ pc = "done"
    /\ pspec = NoSpec
    /\ poll = IdlePoll
    /\ obs = NoObs
    /\ ret = "none"
    /\ err = ""
    /\ mut = 0
    /\ attrs \in InitAttrs(kind)
    /\ gw \in InitGateway(kind)
    /\ nops = 0
    /\ aux = NoAux
    /\ fn = NoCall

Next ==
    \/ WaitForState
    \/ RemoteProgress
    \/ PollStart
    \/ Cancel
    \/ PollReturn
    \/ waitForTransitGatewayConnectPeerCreation
    \/ WaitForTransitGatewayConnectPeerDeletion
    \/ PeerCreationReturn
    \/ PeerDeletionReturn
    \/ resourceVPCIPv4CIDRBlockAssociationCreate
    \/ VpcCreateWaited
    \/ VpcCreateRead
    \/ resourceVPCIPv4CIDRBlockAssociationRead
    \/ resourceVPCIPv4CIDRBlockAssociationDelete
    \/ VpcDeleteWaited
    \/ resourceTransitGatewayConnectCreate
    \/ TgwCreateWaited
    \/ TgwCreateDescribe
    \/ TgwCreateAssociate
    \/ TgwCreatePropagate
    \/ TgwCreateRead
    \/ resourceTransitGatewayConnectRead
    \/ resourceTransitGatewayConnectUpdate
    \/ TgwUpdateGateway
    \/ TgwUpdateAssociate
    \/ TgwUpdatePropagate
    \/ TgwUpdateTags
    \/ resourceTransitGatewayConnectDelete
    \/ TgwDeleteWaited
    \/ waitQueueAttributesPropagated
    \/ QueueAttributesRetried
    \/ QueueAttributesRecheck
    \/ resourceDomainPolicyRead
    \/ resourceDomainPolicyUpsert
    \/ DomainPolicyUpsertRetried
    \/ DomainPolicyUpsertRecheck
    \/ DomainPolicyUpsertRead
    \/ resourceDomainPolicyDelete
    \/ DomainPolicyDeleteRetried
    \/ DomainPolicyDeleteRecheck

Spec == Init /\ [][Next]_vars

\* The poller is a loop that runs by itself once WaitForState is called: the
\* caller is blocked in it, and each iteration sleeps for a bounded interval.
FairSpec == Spec /\ WF_vars(WaitForState)

\* ------------------------------------------------------------ properties

\* The wait in progress has called its refresh function at least once.
HasRead == pc = "wait" /\ obs.calls > 0

\* The last refresh call returned the status token t and no error.
LastToken(t) == HasRead /\ obs.last.err = "" /\ obs.last.token = t

\* C1: with continuousTargetOccurrences = 1, k >= 0 reads in pendingStates
\* followed by one read in targetStates make the poller return
\* Success(value, statusToken) after exactly k+1 refresh calls; so do the waits
\* of the VPC association create ("associated") and of the connect peer
\* creation ("available").
C1_SuccessAfterPendingReads ==
    /\ (HasRead /\ pspec.occ = 1 /\ obs.last.err = "" /\ obs.last.token \in pspec.target)
        => /\ poll.status = "Target"
           /\ poll.kind = "Success"
           /\ poll.value = obs.last.value
           /\ poll.token = obs.last.token
           /\ poll.reads = obs.npending + 1
           /\ obs.calls = obs.npending + 1
    /\ (op = "waitForTransitGatewayConnectPeerCreation" /\ LastToken("available"))
        => poll.kind = "Success" /\ obs.calls = obs.npending + 1
    /\ (op = "resourceVPCIPv4CIDRBlockAssociationCreate" /\ LastToken("associated"))
        => poll.kind = "Success" /\ obs.calls = obs.npending + 1

\* The scenario [associating, associating, associated]: Success after 3 reads.
C1_SuccessAfterThreeReads ==
    /\ op = "resourceVPCIPv4CIDRBlockAssociationCreate"
    /\ LastToken("associated")
    /\ poll.kind = "Success"
    /\ obs.npending = 2
    /\ obs.calls = 3

\* C2: when every refresh returns a state in pendingStates until the timeout
\* elapses, the poller never returns Success and ends in Failure(Timeout)
\* carrying the last observed status token; so does the connect peer creation
\* wait when it only ever reads "pending".
C2_TimeoutWhenAlwaysPending ==
    /\ (pc = "wait" /\ obs.npending = obs.calls) => poll.kind # "Success"
    /\ (pc = "wait" /\ poll.status # "Pending" /\ obs.npending = obs.calls
            /\ ~poll.cancelled)
        => /\ poll.status = "Failed"
           /\ poll.kind = "Timeout"
           /\ poll.token = obs.last.token
           /\ poll.elapsed >= pspec.timeout
    /\ (op = "waitForTransitGatewayConnectPeerCreation" /\ LastToken("pending")
            /\ poll.status # "Pending")
        => poll.kind = "Timeout" /\ poll.token = "pending"

\* The connect peer creation wait has timed out after reading only "pending".
C2_PeerCreationTimedOut ==
    /\ op = "waitForTransitGatewayConnectPeerCreation"
    /\ LastToken("pending")
    /\ obs.calls > 1
    /\ obs.npending = obs.calls
    /\ poll.kind = "Timeout"

\* C3: a refresh that returns a status token in neither pendingStates nor
\* targetStates makes the poller return Failure(UnexpectedState) with that
\* token (the VPC create wait on "failing" or "failed", the peer deletion wait
\* on "pending"), and the wait makes no further refresh call.
C3_UnexpectedStateAborts ==
    /\ []((HasRead /\ obs.last.err = ""
              /\ obs.last.token \notin (pspec.pending \cup pspec.target))
            => /\ poll.status = "Failed"
               /\ poll.kind = "UnexpectedState"
               /\ poll.token = obs.last.token
               /\ poll.reads = obs.calls)
    /\ []((op = "resourceVPCIPv4CIDRBlockAssociationCreate"
              /\ (LastToken("failing") \/ LastToken("failed")))
            => poll.kind = "UnexpectedState")
    /\ []((op = "WaitForTransitGatewayConnectPeerDeletion" /\ LastToken("pending"))
            => poll.kind = "UnexpectedState")
    /\ [][(pc = "wait" /\ poll.kind = "UnexpectedState")
            => obs'.calls \in {obs.calls, 0}]_vars

\* The VPC create wait has failed on "failing" with time left before the timeout.
C3_UnexpectedWithTimeLeft ==
    /\ op = "resourceVPCIPv4CIDRBlockAssociationCreate"
    /\ LastToken("failing")
    /\ poll.kind = "UnexpectedState"
    /\ poll.token = "failing"
    /\ poll.elapsed < pspec.timeout

\* The not-found errors a refresh function maps to the synthetic deleted state.
MappedNotFound ==
    {"InvalidTransitGatewayConnectPeerID.NotFound",
     "InvalidTransitGatewayAttachmentID.NotFound"}

\* C4: in every wait, the first read call that returns an error (other than a
\* not-found mapped to the synthetic deleted state) aborts the wait with
\* failure: the operation returns an error, the read is not retried and the
\* wait makes no further read call.
C4_ReadErrorAborts ==
    /\ []((HasRead /\ obs.answer.err # "" /\ obs.answer.err \notin MappedNotFound)
            => /\ poll.status = "Failed"
               /\ poll.kind = "RefreshError"
               /\ obs.last.err # ""
               /\ poll.reads = obs.calls)
    /\ [][(pc = "wait" /\ poll.kind = "RefreshError")
            => /\ obs'.calls \in {obs.calls, 0}
               /\ pc' \in {"wait", "done"}
               /\ (pc' = "done" => ret' = "err")]_vars

\* The retry loop of the domain policy upsert has stopped on a read error
\* that came after retryable reads.
C4_UpsertRetryAborted ==
    /\ op = "resourceDomainPolicyUpsert"
    /\ HasRead
    /\ obs.calls > 1
    /\ obs.answer.err = ErrOther
    /\ poll.kind = "RefreshError"

\* C5: with continuousTargetOccurrences = N the poller returns Success only
\* if the last N refresh results were all in targetStates; a pending-state
\* read resets the consecutive counter to zero and never yields Success.
C5_SuccessNeedsConsecutiveTargets ==
    /\ (pc = "wait" /\ poll.kind = "Success")
        => /\ Len(obs.window) >= pspec.occ
           /\ \A i \in 1..Len(obs.window) :
                i > Len(obs.window) - pspec.occ => obs.window[i] \in pspec.target
    /\ (HasRead /\ obs.last.err = "" /\ obs.last.token \in pspec.pending
            /\ obs.last.token \notin pspec.target)
        => poll.consec = 0 /\ poll.kind # "Success"

\* N = 3 (ContinuousTargetOccurence: 3): target, pending, target, target,
\* target succeeds at the fifth read, not at the fourth.
C5_SuccessAfterReset ==
    /\ kind = "poll"
    /\ pspec.occ = 3
    /\ poll.kind = "Success"
    /\ obs.npending = 1
    /\ obs.calls = 5

\* The delete orchestrators.
DeleteOperations ==
    {"resourceTransitGatewayConnectDelete",
     "resourceVPCIPv4CIDRBlockAssociationDelete",
     "resourceDomainPolicyDelete"}

\* The remote object was already absent when the operation was invoked.
AbsentAtStart ==
    \/ kind = "tgw" /\ aux.start = "absent"
    \/ kind = "vpc" /\ aux.start \in {"absent", "novpc"}
    \/ kind = "es" /\ aux.start = "nodomain"

\* C6: a delete orchestrator invoked on an object that is already absent
\* remotely returns success, the first time and the second time: a not-found
\* answer of the delete call is treated as success.
C6_DeleteOfAbsentSucceeds ==
    (pc = "done" /\ op \in DeleteOperations /\ AbsentAtStart /\ aux.call # ErrOther)
        => ret = "ok"

\* The refresh function could not find the remote object: a not-found error,
\* an empty result, or the object missing from the parent's list.
Missing(a) ==
    \/ a.err \in MappedNotFound
    \/ a.err = "" /\ (~a.found \/ a.state = "")

C8_TimeoutIsFatal ==
    (pc = "done" /\ aux.recheck = "processing"
        /\ op \in {"resourceDomainPolicyUpsert", "resourceDomainPolicyDelete"})
        => ret = "err"

\* The orchestrators with one API call that creates, changes or deletes.
SingleCallOperations ==
    {"resourceVPCIPv4CIDRBlockAssociationCreate",
     "resourceVPCIPv4CIDRBlockAssociationDelete",
     "resourceTransitGatewayConnectDelete",
     "resourceDomainPolicyUpsert",
     "resourceDomainPolicyDelete"}

CreateWaitFailed ==
    \/ /\ op \in {"resourceVPCIPv4CIDRBlockAssociationCreate",
                  "resourceTransitGatewayConnectCreate"}
       /\ err \in {"Timeout", "UnexpectedState"}
    \/ /\ op = "resourceDomainPolicyUpsert"
       /\ aux.recheck = "processing"

\* C10 as stated: when the wait fails inside a create orchestrator, the
\* orchestrator returns an error and the local identifier is unset on return.
C10_IdUnsetAfterFailedWait ==
    (pc = "done" /\ CreateWaitFailed) => ret = "err" /\ id = ""

\* C10: when the wait fails (timeout or unexpected state) inside the VPC
\* association create or the connect attachment create, the orchestrator
\* returns an error and the identifier it set before the wait is still set on
\* return; the domain policy upsert too sets the identifier before its wait
\* and keeps it through the wait and the re-check.
C10_IdKeptAfterFailedWait ==
    /\ (pc = "done" /\ op = "resourceVPCIPv4CIDRBlockAssociationCreate"
            /\ err \in {"Timeout", "UnexpectedState"})
        => ret = "err" /\ id = "vpc-cidr-assoc-1"
    /\ (pc = "done" /\ op = "resourceTransitGatewayConnectCreate"
            /\ err \in {"Timeout", "UnexpectedState"})
        => ret = "err" /\ id = "tgw-attach-1"
    /\ (op = "resourceDomainPolicyUpsert" /\ pc \in {"wait", "recheck"})
        => id = PolicyId(attrs.domain_name)
    /\ (op = "resourceDomainPolicyUpsert" /\ pc = "done" /\ aux.recheck = "error")
        => ret = "err" /\ id = PolicyId(attrs.domain_name)

\* The VPC association create has returned an error after its wait timed
\* out, the identifier still set.
C10_CreateTimedOutIdSet ==
    /\ pc = "done"
    /\ op = "resourceVPCIPv4CIDRBlockAssociationCreate"
    /\ err = "Timeout"
    /\ ret = "err"
    /\ id = "vpc-cidr-assoc-1"

\* The create and update orchestrators.
CreateOperations ==
    {"resourceVPCIPv4CIDRBlockAssociationCreate",
     "resourceTransitGatewayConnectCreate",
     "resourceDomainPolicyUpsert"}

\* This step is the return of nil by an operation that had passed its
\* mutating call: the operation was running and is now done with "ok".
ReturnsNilAfterCall ==
    /\ pc # "done"
    /\ pc' = "done"
    /\ ret' = "ok"

\* C11: a create or update orchestrator that returns success after its wait
\* has run the resource's read path as its last step: there is no return of
\* nil after the wait that does not come out of the read.
C11_SuccessComesFromRead ==
    [][(op \in CreateOperations /\ ReturnsNilAfterCall) => pc = "read"]_vars

\* The read orchestrators.
ReadOperations ==
    {"resourceVPCIPv4CIDRBlockAssociationRead",
     "resourceTransitGatewayConnectRead",
     "resourceDomainPolicyRead"}

\* The read found that the remote object no longer exists: a not-found code,
\* an empty result, the object missing from its parent's list, or an
\* attachment in state deleting or deleted.
SeenGone ==
    aux.seen \in {"InvalidTransitGatewayAttachmentID.NotFound",
                  "ResourceNotFoundException",
                  "missing", "nilAttachment", "deleting", "deleted"}

\* The read failed in another way.
SeenFailure ==
    aux.seen \in {ErrOther, "errGateway", "errAttachment", "errAssociation",
                  "errPropagation", "errPolicy"}

\* C12: a read of a resource whose remote object no longer exists clears the
\* local id and returns no error; a read returns an error only for another
\* read failure, and then leaves the id as it was.
C12_ReadOfGoneClearsId ==
    (pc = "done" /\ op \in ReadOperations) =>
        /\ SeenGone => (id = "" /\ ret = "ok")
        /\ ret = "err" => (SeenFailure /\ id # "")
        /\ (~SeenGone /\ ~SeenFailure) => (id # "" /\ ret = "ok")

\* A read of a transit gateway connect found in state deleting has returned.
C12_ReadOfDeletingAttachment ==
    /\ pc = "done"
    /\ op = "resourceTransitGatewayConnectRead"
    /\ aux.seen = "deleting"
    /\ id = ""
    /\ ret = "ok"

\* This step invokes a create whose mutating call fails.
CreateCallFails ==
    /\ Idle
    /\ nops' = nops + 1
    /\ op' \in CreateOperations
    /\ aux'.call # "ok"

\* C13: when the mutating call of a create fails, the create returns an error
\* at once: the call was made once, the id is not set, no wait is started and
\* the read is not run.
C13_FailedCallReturnsError ==
    [][CreateCallFails =>
          /\ pc' = "done"
          /\ ret' = "err"
          /\ mut' = 1
          /\ id' = id
          /\ remote' = aux'.start
          /\ aux'.seen = ""
          /\ poll' = IdlePoll /\ pspec' = NoSpec /\ obs' = NoObs]_vars

\* A create of a VPC CIDR block association has returned the error of its
\* associate call.
C13_AssociateCallFailed ==
    /\ pc = "done"
    /\ op = "resourceVPCIPv4CIDRBlockAssociationCreate"
    /\ aux.call = ErrOther
    /\ ret = "err"
    /\ id = ""
    /\ mut = 1

\* C14: the local identifier is set once, by a create; once it is set, no
\* operation assigns it another non-empty value: a step leaves it as it is or
\* clears it.
C14_IdSetOnce ==
    [][id # "" => id' \in {id, ""}]_vars

C16_PollTerminates ==
    (pc = "wait" /\ poll.status = "Pending") ~> (poll.status \in {"Target", "Failed"})

\* A poll has ended by its timeout after reading only pending states.
C16_EndedByTimeout ==
    /\ pc = "wait"
    /\ poll.status = "Failed"
    /\ poll.kind = "Timeout"
    /\ obs.calls > 1
    /\ obs.npending = obs.calls

\* A poll that has ended is left as it ended until its result is taken.
Terminal(p) == p.status \in {"Target", "Failed"}

\* C17: the state machine of one poll. A poll starts in Pending before any
\* read; from Pending it goes to Pending, Target or Failed; from Target and
\* Failed it goes nowhere and no refresh call is made: the poll stays as it
\* is until the caller takes its result and the poll is discarded.
C17_PollStateMachine ==
    [][/\ poll.status = "None" =>
            /\ poll'.status \in {"None", "Pending"}
            /\ poll'.status = "Pending" => (poll'.reads = 0 /\ obs'.calls = 0)
       /\ poll.status = "Pending" => poll'.status \in {"Pending", "Target", "Failed"}
       /\ Terminal(poll) =>
            \/ poll' = poll /\ obs' = obs
            \/ poll' = IdlePoll /\ obs' = NoObs /\ pc' # "wait"]_vars

\* A poll has reached Target after a read that left it in Pending.
C17_PendingThenTarget ==
    /\ pc = "wait"
    /\ poll.status = "Target"
    /\ obs.npending > 0
    /\ obs.calls > obs.npending

\* C18: once the context of the operation has fired, the poller makes no
\* further refresh call: its next step ends the poll with Failure(Cancelled),
\* whatever the deadline and whatever the remote object does meanwhile.
C18_CancelledPollStops ==
    [][(pc = "wait" /\ poll.status = "Pending" /\ poll.cancelled) =>
          /\ obs' = obs
          /\ \/ poll' = poll
             \/ poll'.status = "Failed" /\ poll'.kind = "Cancelled"
                    /\ poll'.reads = poll.reads /\ poll'.token = poll.token]_vars

\* A poll was cancelled between two iterations, after a read that left it in
\* Pending and before its timeout, and has ended with Failure(Cancelled).
C18_CancelledBetweenIterations ==
    /\ pc = "wait"
    /\ poll.status = "Failed"
    /\ poll.kind = "Cancelled"
    /\ obs.calls > 0
    /\ obs.npending = obs.calls
    /\ poll.elapsed < pspec.timeout

\* This step is a step of the wait: the poller's, on a poll in progress.
WaitStep ==
    /\ pc = "wait"
    /\ poll.status = "Pending"
    /\ poll' # poll

TakesFailedWait ==
    /\ op \in CreateOperations
    /\ pc = "wait"
    /\ poll.status = "Failed"
    /\ pc' # "wait"

\* C20: when the mutating call of a create succeeded and its wait failed, the
\* create makes no further mutating call: the step that takes the failure, and
\* the re-check the upsert makes after a timeout, leave the remote object as it
\* is, and the create ends with the one call it began with.
C20_NoCallAfterFailedWait ==
    /\ []((pc = "done" /\ op \in CreateOperations /\ (err # "" \/ aux.recheck # ""))
            => (mut = 1 /\ aux.call = "ok"))
    /\ [][TakesFailedWait =>
            /\ mut' = mut
            /\ remote' = remote
            /\ op # "resourceDomainPolicyUpsert" => (pc' = "done" /\ ret' = "err")]_vars
    /\ [][(op = "resourceDomainPolicyUpsert" /\ pc = "recheck" /\ pc' # "recheck")
            => (mut' = mut /\ remote' = remote)]_vars

\* The create of a transit gateway connect has returned the timeout of its
\* wait; the attachment is still there, pending.
C20_AttachmentLeftPending ==
    /\ pc = "done"
    /\ op = "resourceTransitGatewayConnectCreate"
    /\ err = "Timeout"
    /\ ret = "err"
    /\ mut = 1
    /\ remote = "pending"
    /\ id = "tgw-attach-1"

\* ------------------------------------------- two operations at the same time

\* Refresh calls for which the remote behaviour of a concurrent operation is
\* given; later calls get the last answer again.
ScriptLen == 2

\* The resource operations are parked while helper functions run on their own.
Parked ==
    /\ kind = "none"
    /\ remote = "none"
    /\ id = ""
    /\ op = "none"
    /\ pc = "done"
    /\ pspec = NoSpec
    /\ poll = IdlePoll
    /\ obs = NoObs
    /\ ret = "none"
    /\ err = ""
    /\ mut = 0
    /\ attrs = "config"
    /\ gw = [shared |-> FALSE, assoc |-> FALSE, prop |-> FALSE]
    /\ nops = 0
    /\ aux = NoAux

\* The remote behaviour one operation meets: the answer to each of its
\* describe calls in turn.
Scripts(states) ==
    [1..ScriptLen -> {Answer("", TRUE, r) : r \in states} \cup {Answer(ErrOther, FALSE, "")}]

\* The answer to the call after n earlier ones.
Scripted(script, n) == script[Min(n + 1, ScriptLen)]

\* A program in which both waits work on one StateChangeConf value.
OwnShared(i) == 1

\* Each call of a wait builds its own StateChangeConf (stateConf := &resource.
\* StateChangeConf{...}, a local of the call) and the refresh function closes
\* over the arguments of the call: operation i works on value i.
Own(i) == i

\* One iteration of waitForTransitGatewayConnectPeerCreation's poll.
PeerCreationStep(p, script) ==
    IF Expired(PeerCreationConf, p)
    THEN PollTimeout(p)
    ELSE PollIteration(PeerCreationConf, p,
                       transitGatewayConnectPeerRefreshFunc(Scripted(script, p.reads)))

\* One iteration of the poll of resourceVPCIPv4CIDRBlockAssociationCreate.
VpcCreateStep(p, script) ==
    IF Expired(VpcCreateConf, p)
    THEN PollTimeout(p)
    ELSE PollIteration(VpcCreateConf, p,
                       vpcIpv4CidrBlockAssociationStateRefresh(Scripted(script, p.reads)))

\* The peer creation wait and the wait of a VPC association create are started
\* together, on different resources.
ConcurrentInit ==
    /\ Parked
    /\ \E s1 \in Scripts({"pending", "available"}),
          s2 \in Scripts({"associating", "associated", "failing"}) :
        fn = [name |-> "concurrent",
              script |-> <<s1, s2>>,
              poll |-> <<BeginPoll(PeerCreationConf), BeginPoll(VpcCreateConf)>>,
              steps |-> <<0, 0>>]

\* The peer creation wait makes its next iteration.
ConcurrentPeerWait ==
    /\ fn.poll[Own(1)].status = "Pending"
    /\ fn' = [fn EXCEPT !.poll[Own(1)] = PeerCreationStep(fn.poll[Own(1)], fn.script[1]),
                        !.steps[1] = @ + 1]
    /\ UNCHANGED resource

\* The wait of the VPC association create makes its next iteration.
ConcurrentVpcWait ==
    /\ fn.poll[Own(2)].status = "Pending"
    /\ fn' = [fn EXCEPT !.poll[Own(2)] = VpcCreateStep(fn.poll[Own(2)], fn.script[2]),
                        !.steps[2] = @ + 1]
    /\ UNCHANGED resource

ConcurrentNext ==
    \/ ConcurrentPeerWait
    \/ ConcurrentVpcWait

ConcurrentSpec == ConcurrentInit /\ [][ConcurrentNext]_vars

\* The peer creation wait run alone against the script, after n iterations.
RECURSIVE PeerCreationAlone(_, _)
PeerCreationAlone(script, n) ==
    IF n = 0
    THEN BeginPoll(PeerCreationConf)
    ELSE LET p == PeerCreationAlone(script, n - 1)
         IN  IF p.status = "Pending" THEN PeerCreationStep(p, script) ELSE p

\* The wait of the VPC association create run alone, after n iterations.
RECURSIVE VpcCreateAlone(_, _)
VpcCreateAlone(script, n) ==
    IF n = 0
    THEN BeginPoll(VpcCreateConf)
    ELSE LET p == VpcCreateAlone(script, n - 1)
         IN  IF p.status = "Pending" THEN VpcCreateStep(p, script) ELSE p

PendingRefresh ==
    /\ pc = "wait"
    /\ poll.status = "Pending"
    /\ obs'.calls = obs.calls + 1
    /\ poll'.status = "Pending"

\* C22: the wait between a refresh call and the next one lies between
\* minPollInterval and the cap, whatever the growth of the interval: the
\* poller sleeps for the interval it had computed, and the interval it
\* computes next is within the same limits.
C22_IntervalWithinLimits ==
    [][PendingRefresh =>
          /\ poll'.elapsed - poll.elapsed = poll.wait
          /\ poll.wait >= pspec.minPollInterval /\ poll.wait <= IntervalCap
          /\ poll'.wait >= pspec.minPollInterval /\ poll'.wait <= IntervalCap]_vars

\* The wait of a VPC association create has grown its interval from the
\* minimum to the cap.
C22_IntervalGrownToCap ==
    /\ op = "resourceVPCIPv4CIDRBlockAssociationCreate"
    /\ pc = "wait"
    /\ poll.status = "Pending"
    /\ obs.calls >= 2
    /\ pspec.minPollInterval < IntervalCap
    /\ poll.wait = IntervalCap

\* a / b rounded up.
CeilDiv(a, b) == (a + b - 1) \div b

\* The refresh calls that fit before the timeout of PollSpec s when every
\* read is pending and the interval is fixed: one at the start (after the
\* initial delay) and one per interval while the timeout has not elapsed.
ReadsBeforeTimeout(s) ==
    CeilDiv(Max(s.timeout - s.initialDelay, 0), FirstInterval(s))

\* C23: with a fixed poll interval p and timeout T, a poll whose reads are all
\* pending makes at most about T/p refresh calls (T/p rounded up, less the
\* initial delay), ends with Failure(Timeout) after exactly that many, and no
\* refresh call is made once T has elapsed.
C23_ReadsBoundedByTimeout ==
    /\ []((pc = "wait" /\ pspec.pollInterval > 0 /\ obs.npending = obs.calls)
            => /\ obs.calls <= ReadsBeforeTimeout(pspec)
               /\ poll.kind = "Timeout" => obs.calls = ReadsBeforeTimeout(pspec))
    /\ [][(pc = "wait" /\ pc' = "wait" /\ poll.elapsed >= pspec.timeout)
            => obs' = obs]_vars

\* A poll with timeout 3 and fixed interval 1 (as 15 s and 5 s) has timed out
\* after 3 pending reads.
C23_ThreeReadsThenTimeout ==
    /\ pc = "wait"
    /\ pspec.pollInterval = 1
    /\ FirstInterval(pspec) = 1
    /\ pspec.initialDelay = 0
    /\ pspec.timeout = 3
    /\ poll.kind = "Timeout"
    /\ obs.calls = 3
    /\ obs.npending = 3

\* C24: the default route table association and propagation are touched only
\* for a transit gateway that is not shared: no create, read or update of a
\* transit gateway connect is at its association or propagation step when the
\* gateway's owner differs from the attachment's.
C24_NoRouteTableStepOnShared ==
    (kind = "tgw" /\ gw.shared) => pc \notin {"associate", "propagate"}

\* ------------------------------------------- attributesMatch, run on its own

\* The most attributes in a map of expected or read attributes.
MaxAttributes == 2

QueueAttributeNames ==
    {"Policy", "RedrivePolicy", "KmsDataKeyReusePeriodSeconds", "DelaySeconds"}

\* strconv.Itoa(DefaultQueueKMSDataKeyReusePeriodSeconds)
DefaultReusePeriod == "300"

\* The values an attribute may have: two spellings of one policy ("p1", "P1")
\* and of one redrive policy ("r1", "R1"), another policy, a text that is not
\* a policy document, numbers, and the empty string.
AttributeValues(k) ==
    CASE k = "Policy" -> {"", "p1", "P1", "p2", "{"}
      [] k = "RedrivePolicy" -> {"", "r1", "R1", "r2"}
      [] k = "KmsDataKeyReusePeriodSeconds" -> {"", DefaultReusePeriod, "60"}
      [] OTHER -> {"", "0", "5"}

\* map[string]string with at most MaxAttributes entries.
AttributeMaps ==
    UNION {{m \in [ks -> UNION {AttributeValues(k) : k \in QueueAttributeNames}] :
                \A k \in ks : m[k] \in AttributeValues(k)} :
           ks \in {x \in SUBSET QueueAttributeNames : Cardinality(x) <= MaxAttributes}}

\* The document a policy text stands for; "invalid" when it does not parse.
PolicyDocument(v) ==
    CASE v \in {"p1", "P1"} -> "document1"
      [] v = "p2" -> "document2"
      [] OTHER -> "invalid"

\* awspolicy.PoliciesAreEquivalent(g, e): (equivalent, err)
PoliciesAreEquivalent(g, e) ==
    IF PolicyDocument(g) = "invalid" \/ PolicyDocument(e) = "invalid"
    THEN [equivalent |-> FALSE, err |-> "Error unmarshaling policy"]
    ELSE [equivalent |-> PolicyDocument(g) = PolicyDocument(e), err |-> ""]

\* StringsEquivalent(g, e): equal when case and surrounding space are ignored.
StringsEquivalent(g, e) ==
    LET folded(v) == IF v = "R1" THEN "r1" ELSE v
    IN  folded(g) = folded(e)

\* A check that takes no missing attribute for its default.
MissingAttributeOnlyEmpty(k, e) ==
    IF e = "" THEN "" ELSE "SQS Queue attribute not available"

\* The branch !ok of attributesMatch: got has no k.
MissingAttribute(k, e) ==
    IF e = "" THEN ""
    ELSE IF k = "KmsDataKeyReusePeriodSeconds" /\ e = DefaultReusePeriod THEN ""
    ELSE "SQS Queue attribute not available"

\* One iteration of the loop of attributesMatch on the expected pair (k, e):
\* "" to go on with the next pair, else the error returned.
AttributeCheck(k, e, got) ==
    IF k \notin DOMAIN got
    THEN MissingAttribute(k, e)
    ELSE CASE k = "Policy" ->
                 IF PoliciesAreEquivalent(got[k], e).err # ""
                 THEN PoliciesAreEquivalent(got[k], e).err
                 ELSE IF ~PoliciesAreEquivalent(got[k], e).equivalent
                 THEN "SQS Queue policies are not equivalent"
                 ELSE ""
           [] k = "RedrivePolicy" ->
                 IF ~StringsEquivalent(got[k], e)
                 THEN "SQS Queue redrive policies are not equivalent"
                 ELSE ""
           [] OTHER ->
                 IF got[k] # e THEN "SQS Queue attribute mismatch" ELSE ""

\* attributesMatch is called with the attributes read, for expected attributes.
AttributesMatchInit ==
    /\ Parked
    /\ \E expected \in AttributeMaps, got \in AttributeMaps :
        fn = [name |-> "attributesMatch", expected |-> expected, got |-> got,
              todo |-> DOMAIN expected, result |-> "running"]

\* for k, e := range expected { ... }: the pairs come in any order; a pair
\* that fails returns its error at once.
AttributesMatchRange ==
    /\ fn.result = "running"
    /\ \E k \in fn.todo :
        fn' = IF AttributeCheck(k, fn.expected[k], fn.got) = ""
              THEN [fn EXCEPT !.todo = @ \ {k}]
              ELSE [fn EXCEPT !.result = AttributeCheck(k, fn.expected[k], fn.got)]
    /\ UNCHANGED resource

\* return nil, after the loop
AttributesMatchReturn ==
    /\ fn.result = "running"
    /\ fn.todo = {}
    /\ fn' = [fn EXCEPT !.result = "nil"]
    /\ UNCHANGED resource

AttributesMatchNext ==
    \/ AttributesMatchRange
    \/ AttributesMatchReturn

AttributesMatchSpec == AttributesMatchInit /\ [][AttributesMatchNext]_vars

\* The expected pair (k, e) is met by the attributes got.
PairMet(k, e, got) ==
    \/ /\ k \in DOMAIN got
       /\ CASE k = "Policy" ->
                 PoliciesAreEquivalent(got[k], e).err = ""
                     /\ PoliciesAreEquivalent(got[k], e).equivalent
             [] k = "RedrivePolicy" -> StringsEquivalent(got[k], e)
             [] OTHER -> got[k] = e
    \/ k \notin DOMAIN got /\ e = ""
    \/ k \notin DOMAIN got /\ k = "KmsDataKeyReusePeriodSeconds" /\ e = DefaultReusePeriod

\* C25: attributesMatch returns nil exactly when every expected pair (k, e)
\* is met: got has k with an equal value (an equivalent policy for Policy, an
\* equivalent string for RedrivePolicy), or got has no k and e is empty, or
\* got has no k and k is KmsDataKeyReusePeriodSeconds with e the default.
\* What got holds beyond the expected attributes plays no part.
C25_NilIffEveryPairMet ==
    fn.result # "running" =>
        (fn.result = "nil" <=>
            \A k \in DOMAIN fn.expected : PairMet(k, fn.expected[k], fn.got))

\* attributesMatch has returned nil although the reuse period is missing from
\* got, its expected value being the default, and got holds an attribute that
\* is not expected.
C25_DefaultReusePeriodMissing ==
    /\ fn.result = "nil"
    /\ "KmsDataKeyReusePeriodSeconds" \in DOMAIN fn.expected
    /\ fn.expected["KmsDataKeyReusePeriodSeconds"] = DefaultReusePeriod
    /\ "KmsDataKeyReusePeriodSeconds" \notin DOMAIN fn.got
    /\ DOMAIN fn.got \ DOMAIN fn.expected # {}

\* ------------------------------------------- the queue attribute wait

InQueueWait == op = "waitQueueAttributesPropagated"

\* C26: waitQueueAttributesPropagated retries while the attributes read do
\* not match; it reads once more only when the retry window has timed out, and
\* then that one read alone decides the result: nil if the attributes match,
\* the mismatch error if they do not, the read's error if the read fails.
C26_RecheckDecidesAfterTimeout ==
    /\ [][(InQueueWait /\ pc = "wait" /\ obs'.calls = obs.calls + 1
            /\ obs'.answer.err = "" /\ attributesMatch(obs'.answer.state) # "")
           => (pc' = "wait" /\ poll'.status = "Pending")]_vars
    /\ [][(InQueueWait /\ pc = "wait" /\ pc' # "wait")
           => IF poll.kind = "Timeout" THEN pc' = "recheck" /\ aux'.recheck = ""
              ELSE pc' = "done"]_vars
    /\ [][(InQueueWait /\ pc = "recheck" /\ pc' # "recheck")
           => /\ pc' = "done"
              /\ obs' = obs
              /\ aux.recheck = ""
              /\ aux'.recheck \in {"propagated", "stale", "error"}
              /\ aux'.recheck = "propagated" => (ret' = "ok" /\ err' = "")
              /\ aux'.recheck = "stale"
                    => (ret' = "err" /\ err' = attributesMatch("stale"))
              /\ aux'.recheck = "error" => (ret' = "err" /\ err' = ErrOther)]_vars

\* The retries saw mismatching attributes until the window timed out; the one
\* read after it found the attributes propagated and the wait returned nil.
C26_MatchedAfterTimeout ==
    /\ InQueueWait
    /\ pc = "done"
    /\ aux.recheck = "propagated"
    /\ ret = "ok"
    /\ err = ""

\* ------------------------------------------- the order of the steps of create

\* A step within one run of resourceTransitGatewayConnectCreate.
InTgwCreate ==
    /\ op = "resourceTransitGatewayConnectCreate"
    /\ op' = op
    /\ nops' = nops

\* resourceTransitGatewayConnectCreate is invoked.
TgwCreateInvoked ==
    /\ op' = "resourceTransitGatewayConnectCreate"
    /\ nops' = nops + 1

\* C27 as stated: in resourceTransitGatewayConnectCreate the final read runs
\* only after both route table updates have succeeded.
C27_ReadOnlyAfterBothUpdates ==
    [][(InTgwCreate /\ pc # "read" /\ pc' = "read")
       => (pc = "propagate" /\ gw'.assoc = attrs.assoc /\ gw'.prop = attrs.prop)]_vars

\* C27, amended: resourceTransitGatewayConnectCreate orders its steps. The
\* identifier is set from the create response before the wait; the describe
\* calls and the route table updates come only after the attachment wait has
\* succeeded; the association update comes only on a gateway that is not
\* shared, the propagation update only after the association update has
\* succeeded; the final read runs after both updates have succeeded or, on a
\* shared gateway, right after the owner comparison with no update issued; a
\* failure at any step returns an error and no later step is taken.
C27_CreateStepsInOrder ==
    /\ [][TgwCreateInvoked
           => IF aux'.call = "ok"
              THEN pc' = "wait" /\ id' = "tgw-attach-1" /\ poll'.reads = 0
              ELSE pc' = "done" /\ ret' = "err" /\ id' = id]_vars
    /\ [][(InTgwCreate /\ pc # pc')
           => CASE pc' = "describe" -> pc = "wait" /\ poll.kind = "Success"
                [] pc' = "associate" -> pc = "describe" /\ ~gw.shared
                [] pc' = "propagate" -> pc = "associate" /\ gw'.assoc = attrs.assoc
                [] pc' = "read" ->
                     \/ pc = "propagate" /\ gw'.assoc = attrs.assoc
                           /\ gw'.prop = attrs.prop
                     \/ pc = "describe" /\ gw.shared /\ mut = 1
                [] pc' = "done" ->
                     pc \in {"wait", "describe", "associate", "propagate"}
                         => (ret' = "err" /\ id' = id)
                [] OTHER -> FALSE]_vars

\* The create of an attachment on a gateway that is not shared has come to
\* its final read after the wait and both route table calls.
C27_ReadAfterBothUpdates ==
    /\ op = "resourceTransitGatewayConnectCreate"
    /\ pc = "read"
    /\ ~gw.shared
    /\ mut = 3
    /\ id = "tgw-attach-1"

\* ------------------------- DescribeTransitGatewayConnectPeer, run on its own

\* The most pages the paginated describe result has.
MaxPages == 2

\* The most requests followed on a chain of tokens that does not end.
MaxRequests == 3

\* transitGatewayConnectPeerID, the identifier asked for.
RequestedPeerId == "tgw-connect-peer-1"

\* output.TransitGatewayConnectPeers of one page: peers by identifier, "nil"
\* for a nil entry.
PeerLists ==
    {<< >>, <<"nil">>, <<"tgw-connect-peer-1">>, <<"tgw-connect-peer-2">>,
     <<"nil", "tgw-connect-peer-1">>, <<"tgw-connect-peer-2", "tgw-connect-peer-1">>}

\* The pages the API holds, the first being the answer to a request without
\* token; next is the page output.NextToken names, 0 for the empty token. The
\* chain of tokens need not end.
PageChains ==
    UNION {[1..n -> [peers : PeerLists, next : 0..n]] : n \in 1..MaxPages}

\* conn.DescribeTransitGatewayConnectPeers(input): the page or an error.
DescribeTransitGatewayConnectPeers(pages, at) ==
    {[err |-> "", output |-> pages[at]], [err |-> ErrOther, output |-> pages[at]]}

\* for _, transitGatewayConnectPeer := range output.TransitGatewayConnectPeers:
\* a nil entry is skipped, an entry with the identifier asked for is returned.
PeerOnPage(peers, peerID) == \E j \in 1..Len(peers) : peers[j] = peerID

\* A loop that asks for the same page again.
NextTokenKept(pages, at) == at

\* input.NextToken = output.NextToken
NextToken(pages, at) == pages[at].next

DescribePeerInit ==
    /\ Parked
    /\ \E pages \in PageChains :
        fn = [name |-> "DescribeTransitGatewayConnectPeer", pages |-> pages,
              at |-> 1, requests |-> 0, result |-> "running"]

\* One iteration of the loop of DescribeTransitGatewayConnectPeer; requests
\* counts the calls of DescribeTransitGatewayConnectPeers.
DescribePeerIteration ==
    /\ fn.name = "DescribeTransitGatewayConnectPeer"
    /\ fn.result = "running"
    /\ fn.requests < MaxRequests
    /\ \E a \in DescribeTransitGatewayConnectPeers(fn.pages, fn.at) :
        fn' = IF a.err # ""
              THEN [fn EXCEPT !.result = "error", !.requests = @ + 1]
              ELSE IF Len(a.output.peers) = 0
              THEN [fn EXCEPT !.result = "nil", !.requests = @ + 1]
              ELSE IF PeerOnPage(a.output.peers, RequestedPeerId)
              THEN [fn EXCEPT !.result = "peer", !.requests = @ + 1]
              ELSE IF a.output.next = 0
              THEN [fn EXCEPT !.result = "nil", !.requests = @ + 1]
              ELSE [fn EXCEPT !.at = NextToken(fn.pages, fn.at),
                              !.requests = @ + 1]
    /\ UNCHANGED resource

DescribePeerNext == DescribePeerIteration

DescribePeerSpec == DescribePeerInit /\ [][DescribePeerNext]_vars

\* The pages left from page `at` to the end of the chain of tokens, at most
\* `fuel` of them; more than Len(pages) when the chain does not end.
RECURSIVE PagesLeft(_, _, _)
PagesLeft(pages, at, fuel) ==
    IF at = 0 THEN 0
    ELSE IF fuel = 0 THEN Len(pages) + 1
    ELSE 1 + PagesLeft(pages, pages[at].next, fuel - 1)

ChainIsFinite(pages) == PagesLeft(pages, 1, Len(pages)) <= Len(pages)

\* The pages of the chain that starts at page `at`.
RECURSIVE PagesFrom(_, _, _)
PagesFrom(pages, at, fuel) ==
    IF at = 0 \/ fuel = 0 THEN {}
    ELSE {at} \cup PagesFrom(pages, pages[at].next, fuel - 1)

PeerOnSomePage(pages) ==
    \E n \in PagesFrom(pages, 1, Len(pages)) :
        PeerOnPage(pages[n].peers, RequestedPeerId)

\* C28: DescribeTransitGatewayConnectPeer returns (nil, nil) only when no
\* page of the paginated describe result holds the peer asked for.
C28_NilOnlyWhenOnNoPage ==
    fn.result = "nil" => ~PeerOnSomePage(fn.pages)

\* C29: DescribeTransitGatewayConnectPeer terminates whenever the chain of
\* NextToken values is finite: every iteration either returns (an error, the
\* peer, or nil on an empty page or at the empty token) or asks for the page
\* the last NextToken names, which leaves fewer pages to the end of the chain.
C29_FiniteChainTerminates ==
    /\ [](ChainIsFinite(fn.pages)
            => /\ fn.requests <= Len(fn.pages)
               /\ fn.result = "running" => ENABLED DescribePeerIteration)
    /\ [][fn.result = "running"
           => \/ fn'.result \in {"error", "peer", "nil"}
              \/ /\ fn'.result = "running"
                 /\ fn.pages[fn.at].next # 0
                 /\ fn'.at = fn.pages[fn.at].next
                 /\ ChainIsFinite(fn.pages)
                      => PagesLeft(fn.pages, fn'.at, Len(fn.pages))
                           < PagesLeft(fn.pages, fn.at, Len(fn.pages))]_vars

\* On a finite chain of two pages the loop has followed the token of the
\* first page and has returned the peer found on the second.
C29_ReturnedFromSecondPage ==
    /\ fn.name = "DescribeTransitGatewayConnectPeer"
    /\ ChainIsFinite(fn.pages)
    /\ fn.at = 2
    /\ fn.requests = 2
    /\ fn.result = "peer"

\* ------------------------------------------- the peer deletion wait

InPeerDeletion == op = "WaitForTransitGatewayConnectPeerDeletion" /\ pc = "wait"

\* The last read of the wait showed the peer in one of the states.
LastReadShowed(states) ==
    /\ obs.calls > 0
    /\ obs.answer.err = ""
    /\ obs.answer.found
    /\ obs.answer.state \in states

\* The last read of the wait found no peer: a not-found error or no peer in
\* the answer.
LastReadFoundNone ==
    /\ obs.calls > 0
    /\ \/ obs.answer.err = "InvalidTransitGatewayConnectPeerID.NotFound"
       \/ obs.answer.err = "" /\ ~obs.answer.found

VpcReadShowsGoneOrFailed ==
    /\ op = "resourceVPCIPv4CIDRBlockAssociationCreate"
    /\ HasRead
    /\ obs.answer.err = ""
    /\ \/ ~obs.answer.found
       \/ obs.answer.state \in {"", "failing", "failed"}

\* The last read of the peer creation wait showed the peer absent (not-found
\* error or no peer in the answer), deleting or deleted.
PeerReadShowsGone ==
    /\ op = "waitForTransitGatewayConnectPeerCreation"
    /\ HasRead
    /\ \/ obs.answer.err = "InvalidTransitGatewayConnectPeerID.NotFound"
       \/ obs.answer.err = "" /\ ~obs.answer.found
       \/ obs.answer.err = "" /\ obs.answer.state \in {"deleting", "deleted"}

\* C31: during a create wait an absent or failed object is an error. The VPC
\* CIDR association create wait fails at the first read that shows the
\* association missing, failing or failed, and the connect peer creation wait
\* fails at the first read that shows the peer deleted, deleting or absent:
\* every earlier read was a pending one, no read follows, and the operation
\* returns an error.
C31_CreateWaitFailsOnGone ==
    /\ []((VpcReadShowsGoneOrFailed \/ PeerReadShowsGone)
            => /\ poll.status = "Failed"
               /\ poll.kind = "UnexpectedState"
               /\ poll.reads = obs.calls
               /\ obs.npending = obs.calls - 1)
    /\ [][(VpcReadShowsGoneOrFailed \/ PeerReadShowsGone)
           => \/ UNCHANGED <<pc, obs, poll>>
              \/ pc' = "done" /\ ret' = "err" /\ err' = "UnexpectedState"]_vars

\* The VPC create wait has read the association associating and then finds
\* it missing from the VPC.
C31_AssociationGoneDuringCreate ==
    /\ VpcReadShowsGoneOrFailed
    /\ obs.answer.found
    /\ obs.answer.state = ""
    /\ obs.npending >= 1
    /\ poll.kind = "UnexpectedState"

\* ------------------------------------------- when the VPC delete succeeds

InVpcDelete == op = "resourceVPCIPv4CIDRBlockAssociationDelete"

\* The last read of the wait showed the association disassociated, missing
\* from the VPC, or no VPC.
VpcReadShowsDisassociated ==
    /\ HasRead
    /\ obs.answer.err = ""
    /\ \/ ~obs.answer.found
       \/ obs.answer.state \in {"", "disassociated"}

\* C32: resourceVPCIPv4CIDRBlockAssociationDelete returns success only if the
\* disassociate call answered InvalidVpcID.NotFound, and then no wait is
\* started, or a read of the wait showed the association disassociated,
\* missing from the VPC, or the VPC itself absent; a read that shows the
\* association still associated after the disassociate call makes the delete
\* fail at that read.
C32_VpcDeleteSuccess ==
    /\ [][(nops' = nops + 1 /\ op' = "resourceVPCIPv4CIDRBlockAssociationDelete")
           => IF aux'.call = "ok"
              THEN pc' = "wait" /\ ret' = "none"
              ELSE /\ pc' = "done"
                   /\ pspec' = NoSpec
                   /\ obs'.calls = 0
                   /\ ret' = "ok" <=> aux'.call = "InvalidVpcID.NotFound"]_vars
    /\ [][(InVpcDelete /\ pc = "wait" /\ pc' = "done")
           => (ret' = "ok" <=> VpcReadShowsDisassociated)]_vars
    /\ []((InVpcDelete /\ LastToken("associated"))
            => /\ poll.status = "Failed"
               /\ poll.kind = "UnexpectedState"
               /\ poll.reads = obs.calls)

\* The disassociate call has succeeded and the first read of the wait still
\* shows the association associated: the wait has failed.
C32_StillAssociatedAfterCall ==
    /\ InVpcDelete
    /\ aux.call = "ok"
    /\ LastToken("associated")
    /\ poll.kind = "UnexpectedState"

\* ------------------------------------------- the read of a gone attachment

\* resourceTransitGatewayConnectRead returns in this step, on its own or at
\* the end of create.
TgwReadReturns ==
    \/ nops' = nops + 1 /\ op' = "resourceTransitGatewayConnectRead"
    \/ InTgwCreate /\ pc = "read" /\ pc' = "done"

\* What DescribeTransitGatewayConnect showed makes the read decide that the
\* attachment is gone: the not-found error, no attachment, or the state
\* deleting or deleted.
TgwSeenGone(seen) ==
    seen \in {"InvalidTransitGatewayAttachmentID.NotFound", "missing", "deleting",
              "deleted"}

\* C33: once resourceTransitGatewayConnectRead decides that the attachment is
\* gone (not-found error, nil result, or state deleting or deleted) it clears
\* the identifier and returns nil with no describe call but the first and
\* with no attribute written.
C33_GoneReadWritesNothing ==
    [][(TgwReadReturns /\ TgwSeenGone(aux'.seen))
       => /\ id' = ""
          /\ ret' = "ok"
          /\ pc' = "done"
          /\ aux'.describes = 1
          /\ attrs' = attrs
          /\ gw' = gw
          /\ mut' \in {0, mut}]_vars

\* A read of an attachment in state deleted, whose stored flags differ from
\* the gateway's, has returned and has left the flags as they were.
C33_DeletedAttachmentRead ==
    /\ op = "resourceTransitGatewayConnectRead"
    /\ pc = "done"
    /\ aux.seen = "deleted"
    /\ aux.describes = 1
    /\ id = ""
    /\ ~gw.shared
    /\ attrs.assoc # gw.assoc

\* ------------------------------------------- the route table flags of a read

\* resourceTransitGatewayConnectRead has returned after all its describe calls
\* succeeded, on its own or at the end of create.
TgwReadComplete ==
    /\ pc = "done"
    /\ op \in {"resourceTransitGatewayConnectRead", "resourceTransitGatewayConnectCreate"}
    /\ aux.seen = "ok"
    /\ ret = "ok"

\* C34: resourceTransitGatewayConnectRead sets
\* transit_gateway_default_route_table_association (resp. propagation) to
\* true exactly when the gateway is shared, or the gateway is owned and the
\* lookup of the attachment's association (resp. propagation) with the
\* default route table found one; for an owned gateway with none it is false.
C34_RouteTableFlags ==
    TgwReadComplete =>
        /\ attrs.src = "remote"
        /\ attrs.assoc <=> (gw.shared \/ (~gw.shared /\ gw.assoc))
        /\ attrs.prop <=> (gw.shared \/ (~gw.shared /\ gw.prop))
        /\ (~gw.shared /\ ~gw.assoc) => ~attrs.assoc
        /\ (~gw.shared /\ ~gw.prop) => ~attrs.prop

\* A read on a shared gateway, where the attachment has no association with
\* the default route table, has set the association flag to true.
C34_SharedGatewayReadsTrue ==
    /\ TgwReadComplete
    /\ op = "resourceTransitGatewayConnectRead"
    /\ gw.shared
    /\ ~gw.assoc
    /\ attrs.assoc

\* ------------------------------------------- what the update touches

\* A step of resourceTransitGatewayConnectUpdate: its invocation or a later
\* step of the same run.
InTgwUpdate ==
    /\ op' = "resourceTransitGatewayConnectUpdate"
    /\ \/ nops' = nops + 1
       \/ op = op' /\ nops' = nops /\ pc # "done"

\* C35: resourceTransitGatewayConnectUpdate touches only what changed. It
\* describes the gateway only if the association or the propagation
\* attribute changed, issues the association update only if the association
\* attribute changed, the propagation update only if the propagation
\* attribute changed, the tag update only if tags_all changed, makes no call
\* at all when none of the three changed, and never changes the identifier.
C35_UpdateTouchesOnlyChanged ==
    [][InTgwUpdate
       => /\ id' = id
          /\ pc' = "gateway"
                => aux'.changed \cap {"association", "propagation"} # {}
          /\ pc' = "associate" => "association" \in aux'.changed
          /\ pc' = "propagate" => "propagation" \in aux'.changed
          /\ pc' = "tags" => "tags_all" \in aux'.changed
          /\ "association" \notin aux'.changed => gw'.assoc = gw.assoc
          /\ "propagation" \notin aux'.changed => gw'.prop = gw.prop
          /\ (nops' = nops + 1 /\ aux'.changed = {})
                => (pc' = "done" /\ ret' = "ok" /\ mut' = 0)
          /\ mut' \in {0, mut, mut + 1}]_vars

\* An update in which the propagation attribute and the tags changed has
\* returned nil after one call for each, the association left as it was.
C35_PropagationAndTagsUpdated ==
    /\ op = "resourceTransitGatewayConnectUpdate"
    /\ pc = "done"
    /\ ret = "ok"
    /\ aux.changed = {"propagation", "tags_all"}
    /\ mut = 2
    /\ gw.prop = attrs.prop

\* ------------------- CustomizeDiff of the VPC IPv4 CIDR block association

CidrBlocks == {"10.0.0.0/16", "10.1.0.0/24", "10.2.0.0/28"}

\* ipv4_netmask_length: 0 when it is not set.
NetmaskLengths == {0, 16, 24, 28}

\* The ResourceDiff CustomizeDiff is given: the id of the resource ("" when it
\* is new), cidr_block as stored and as planned, ipv4_netmask_length, and
\* whether the change of cidr_block requires a new resource.
ResourceDiffs ==
    {d \in [id : {"", "vpc-cidr-assoc-1"}, old : CidrBlocks \cup {""},
            new : CidrBlocks, netmask : NetmaskLengths, requiresNew : BOOLEAN] :
        /\ d.id = "" <=> d.old = ""
        /\ d.old = d.new => ~d.requiresNew}

\* diff.HasChange("cidr_block")
HasChange(d) == d.old # d.new

\* diff.Clear("cidr_block"): the planned value is the stored one again.
Clear(d) == [d EXCEPT !.new = d.old, !.requiresNew = FALSE]

\* diff.ForceNew("cidr_block")
ForceNew(d) == [d EXCEPT !.requiresNew = TRUE]

\* A CustomizeDiff that does not look at the id.
CustomizeDiffOfAnyResource(d) ==
    IF HasChange(d)
    THEN IF d.netmask # 0 THEN Clear(d) ELSE ForceNew(d)
    ELSE d

\* CustomizeDiff: the diff it leaves.
CustomizeDiff(d) ==
    IF d.id # "" /\ HasChange(d)
    THEN IF d.netmask # 0 THEN Clear(d) ELSE ForceNew(d)
    ELSE d

CustomizeDiffInit ==
    /\ Parked
    /\ \E d \in ResourceDiffs :
        fn = [name |-> "CustomizeDiff", given |-> d, diff |-> d, result |-> "running"]

\* CustomizeDiff runs on the diff and returns nil.
CustomizeDiffCall ==
    /\ fn.name = "CustomizeDiff"
    /\ fn.result = "running"
    /\ fn' = [fn EXCEPT !.diff = CustomizeDiff(fn.given), !.result = "nil"]
    /\ UNCHANGED resource

CustomizeDiffNext == CustomizeDiffCall

CustomizeDiffSpec == CustomizeDiffInit /\ [][CustomizeDiffNext]_vars

\* C36: CustomizeDiff of the VPC IPv4 CIDR block association. For an existing
\* resource (non-empty id) whose cidr_block changed, the change is cleared
\* when ipv4_netmask_length is not zero, and otherwise the change forces a new
\* resource; for a new resource or an unchanged cidr_block the diff is left
\* as it was given.
C36_CustomizeDiff ==
    fn.result = "nil" =>
        IF fn.given.id # "" /\ fn.given.old # fn.given.new
        THEN IF fn.given.netmask # 0
             THEN /\ fn.diff.new = fn.given.old
                  /\ ~fn.diff.requiresNew
                  /\ fn.diff.netmask = fn.given.netmask
             ELSE /\ fn.diff.requiresNew
                  /\ fn.diff.new = fn.given.new
        ELSE fn.diff = fn.given

\* CustomizeDiff has cleared the change of cidr_block of an existing
\* association whose netmask length is set.
C36_ChangeCleared ==
    /\ fn.name = "CustomizeDiff"
    /\ fn.result = "nil"
    /\ fn.given.id # ""
    /\ fn.given.old # fn.given.new
    /\ fn.given.netmask = 24
    /\ fn.diff.new = fn.given.old

====
